---- MODULE Spec2Model ----
(***************************************************************************)
(* Michigan football load-and-report scripts: final.py (GameResults,       *)
(* GameStats, WeatherData in football_stats.db), apis.py (Games in         *)
(* michigan_football.db), calculations.py (the four report passes over     *)
(* Games) and 206Final.py (the first variant of final.py).                 *)
(*                                                                         *)
(* Python values are modelled as follows.  A str is a sequence of          *)
(* one-character strings (a date is one token).  None is the integer None  *)
(* in an integer-typed field and the string NoneStr in a str-typed field.  *)
(* A float is an exact fraction <<n, d>> in lowest terms.  An exception    *)
(* that leaves an operation is recorded by its class name in err.          *)
(***************************************************************************)
EXTENDS Integers, Sequences, FiniteSets, TLC

\* ------------------------------------------------------------- bounds
MaxGameID == 2      \* game ids the Game Source hands out: 1..MaxGameID
MaxResp == 2        \* games in one Game Source response
MaxList == 4        \* cap on the in-memory lists of apis.py
MaxStrLen == 4      \* length of a stored completion string

\* ------------------------------------------------------------- values
None == -1
Text == -2          \* a non-numeric text kept as TEXT in an INTEGER column
EmptyList == -3     \* the Python list [] where a number is expected
NoneStr == <<"None">>
BatchLimit == 25

GameIDs == 1..MaxGameID

Digits == <<"0", "1", "2", "3", "4", "5", "6", "7", "8", "9">>
DigitChars == {Digits[i] : i \in 1..10}
DigitVal(c) == (CHOOSE i \in 1..10 : Digits[i] = c) - 1

\* str.split(sep): the parts between the separators, empty parts included.
RECURSIVE Split(_, _)
Split(s, sep) ==
    IF \A i \in 1..Len(s) : s[i] # sep
    THEN <<s>>
    ELSE LET k == CHOOSE i \in 1..Len(s) :
                      s[i] = sep /\ \A j \in 1..(i - 1) : s[j] # sep
         IN  <<SubSeq(s, 1, k - 1)>> \o Split(SubSeq(s, k + 1, Len(s)), sep)

\* int(part) succeeds on a non-empty run of decimal digits.
IsInt(p) == Len(p) > 0 /\ \A i \in 1..Len(p) : p[i] \in DigitChars

RECURSIVE IntOf(_)
IntOf(p) ==
    IF Len(p) = 0 THEN 0
    ELSE 10 * IntOf(SubSeq(p, 1, Len(p) - 1)) + DigitVal(p[Len(p)])

\* The value SQLite stores when a str (or None) is bound to an INTEGER column.
SqlInteger(s) ==
    IF s = NoneStr THEN None
    ELSE IF IsInt(s) THEN IntOf(s) ELSE Text

\* ------------------------------------------------------------- floats
RECURSIVE GCD(_, _)
GCD(a, b) == IF b = 0 THEN a ELSE GCD(b, a % b)

Frac(n, d) == LET g == GCD(n, d) IN <<n \div g, d \div g>>
Zero == <<0, 1>>
RAdd(x, y) == Frac(x[1] * y[2] + y[1] * x[2], x[2] * y[2])
RDiv(x, k) == Frac(x[1], x[2] * k)
RLe(x, k) == x[1] <= k * x[2]
RGe(x, k) == x[1] >= k * x[2]

RECURSIVE RSum(_)
RSum(xs) == IF Len(xs) = 0 THEN Zero ELSE RAdd(xs[1], RSum(Tail(xs)))

VARIABLES
    script,        \* which script runs: "final", "apis" (with calculations.py)
                   \* or "206Final"
    upstream,      \* the Game Source's season: [games, teams]
    GameResults,   \* final.py table, rows in rowid (= gameID) order
    GameStats,     \* final.py table, rows in insertion order
    WeatherData,   \* final.py table, rows in insertion order
    Games,         \* apis.py table, rows in rowid (= gameID) order
    games_list,    \* apis.py self.games_list
    teams_list,    \* apis.py self.teams_list
    weather_list,  \* apis.py self.weather_list
    call,          \* the operation that ran last and its arguments
    err,           \* the exception that left it, or "none"
    out,           \* what the last report pass computed
    pc,            \* where a whole run of the script stands: [at, year]
    net,           \* what the two sources answer: anything, or as net.fails says
    run,           \* the number of the run in progress, counted from 1
    files          \* the report files in the working directory: name -> sections

finalStore == <<GameResults, GameStats, WeatherData>>
apisState == <<Games, games_list, teams_list, weather_list>>
vars == <<script, upstream, GameResults, GameStats, WeatherData, Games,
          games_list, teams_list, weather_list, call, err, out, pc, net, run,
          files>>

NoOut == [pass |-> "none"]

\* The report files: calculations.py and final.py write data.txt, 206Final.py
\* one file per report.  A file is the sequence of the sections written to it.
FileNames == {"data.txt", "completion_percentage_wind_chill.txt"}
NoFiles == [f \in FileNames |-> <<>>]

FileOf(pass) ==
    IF pass = "wind_chill" THEN "completion_percentage_wind_chill.txt"
    ELSE "data.txt"

\* the mutant of FileMode: every report is appended
FileModeAppend(pass) == "a"

\* the mode of the open() of each report
FileMode(pass) ==
    IF pass \in {"wind_speed", "final_wind_speed", "wind_chill"} THEN "w" ELSE "a"

\* with open(name, mode) as file: file.write(...) at the end of a report
\* function; a report that raised never reached it.  o is what the report
\* computed, and the section written shows it.
Written(fs, o) ==
    IF o.err # "none" THEN fs
    ELSE [fs EXCEPT ![FileOf(o.pass)] =
             Append(IF FileMode(o.pass) = "w" THEN <<>> ELSE @, o)]

\* a report function called on its own has returned
Returned == [at |-> "returned"]
\* no run in progress: the operations are called one by one
Idle == [at |-> "idle"]

\* the sources are free to answer or to fail at every request
Free == [free |-> TRUE, fails |-> {}]

\* ------------------------------------------------ final.py: the store
HasKey(tbl, id) == \E i \in 1..Len(tbl) : tbl[i].gameID = id

\* INSERT into a table whose gameID is INTEGER PRIMARY KEY: the row takes its
\* place in rowid order, and a second row with the same key is refused.
SqlInsertPK(tbl, row) ==
    IF HasKey(tbl, row.gameID)
    THEN [t |-> tbl, err |-> "IntegrityError"]
    ELSE LET k == Cardinality({i \in 1..Len(tbl) : tbl[i].gameID < row.gameID})
         IN  [t |-> SubSeq(tbl, 1, k) \o <<row>> \o SubSeq(tbl, k + 1, Len(tbl)),
              err |-> "none"]

insert_game_results_nocheck(tbl, row) == SqlInsertPK(tbl, row)

insert_game_results(tbl, row) ==
    IF HasKey(tbl, row.gameID)
    THEN [t |-> tbl, err |-> "none"]
    ELSE SqlInsertPK(tbl, row)

\* The row GameStats keeps for the arguments: the INTEGER columns convert.
StatsRow(a) ==
    [gameID |-> a.gameID,
     rushingAttempts |-> SqlInteger(a.rushingAttempts),
     completionAttempts |-> SqlInteger(a.completionAttempts),
     C_ATT |-> a.C_ATT,
     rushingYards |-> SqlInteger(a.rushingYards),
     passingYards |-> SqlInteger(a.passingYards)]

\* the mutant of insert_game_stats: the INSERT without the SELECT before it
insert_game_stats_plain(tbl, a) ==
    [t |-> Append(tbl, StatsRow(a)), err |-> "none"]

insert_game_stats(tbl, a) ==
    IF HasKey(tbl, a.gameID)
    THEN [t |-> tbl, err |-> "none"]
    ELSE [t |-> Append(tbl, StatsRow(a)), err |-> "none"]

\* ------------------------------------------------- apis.py: the store
HomeAwayId(label) ==
    IF label = "Home" THEN 1 ELSE IF label = "Away" THEN 2 ELSE None

Dates == {<<"2024-09-07">>, <<"2024-11-30">>}

\* datetime.strptime(date, "%Y-%m-%d").timestamp(), the clock taken as UTC.
\* Two game days of each season, the first in September, the last in November.
Opener(year) ==
    CASE year = 2024 -> <<"2024-09-07">>
      [] year = 2023 -> <<"2023-09-07">>
      [] year = 2022 -> <<"2022-09-07">>
      [] year = 2021 -> <<"2021-09-07">>
      [] year = 2020 -> <<"2020-09-07">>
      [] year = 2019 -> <<"2019-09-07">>
      [] year = 2018 -> <<"2018-09-07">>
      [] year = 2017 -> <<"2017-09-07">>
      [] year = 2016 -> <<"2016-09-07">>
      [] year = 2015 -> <<"2015-09-07">>

Closer(year) ==
    CASE year = 2024 -> <<"2024-11-30">>
      [] year = 2023 -> <<"2023-11-30">>
      [] year = 2022 -> <<"2022-11-30">>
      [] year = 2021 -> <<"2021-11-30">>
      [] year = 2020 -> <<"2020-11-30">>
      [] year = 2019 -> <<"2019-11-30">>
      [] year = 2018 -> <<"2018-11-30">>
      [] year = 2017 -> <<"2017-11-30">>
      [] year = 2016 -> <<"2016-11-30">>
      [] year = 2015 -> <<"2015-11-30">>

Timestamp(date) ==
    CASE date = <<"2024-09-07">> -> 1725667200
      [] date = <<"2024-11-30">> -> 1732924800
      [] date = <<"2023-09-07">> -> 1694044800
      [] date = <<"2023-11-30">> -> 1701302400
      [] date = <<"2022-09-07">> -> 1662508800
      [] date = <<"2022-11-30">> -> 1669766400
      [] date = <<"2021-09-07">> -> 1630972800
      [] date = <<"2021-11-30">> -> 1638230400
      [] date = <<"2020-09-07">> -> 1599436800
      [] date = <<"2020-11-30">> -> 1606694400
      [] date = <<"2019-09-07">> -> 1567814400
      [] date = <<"2019-11-30">> -> 1575072000
      [] date = <<"2018-09-07">> -> 1536278400
      [] date = <<"2018-11-30">> -> 1543536000
      [] date = <<"2017-09-07">> -> 1504742400
      [] date = <<"2017-11-30">> -> 1512000000
      [] date = <<"2016-09-07">> -> 1473206400
      [] date = <<"2016-11-30">> -> 1480464000
      [] date = <<"2015-09-07">> -> 1441584000
      [] date = <<"2015-11-30">> -> 1448841600

GamesRow(game) ==
    [gameID |-> game.gameID,
     date_timestamp |-> Timestamp(game.date),
     home_away_id |-> HomeAwayId(game.home_away),
     total_points |-> game.total_points,
     rushingAttempts |-> SqlInteger(game.rushingAttempts),
     completionAttempts |-> SqlInteger(game.completionAttempts),
     completed |-> game.completed,
     attempted |-> game.attempted,
     rushingYards |-> SqlInteger(game.rushingYards),
     passingYards |-> SqlInteger(game.passingYards),
     mean_temperature |-> game.mean_temperature,
     max_wind_speed |-> game.max_wind_speed]

\* the mutant of ToInsert: the first BatchLimit games of the batch are looked
\* at, stored or not, and those not yet in Games are selected
ToInsertCounted(tbl, game_data, acc) ==
    acc \o SelectSeq(SubSeq(game_data, 1,
                            IF Len(game_data) < BatchLimit THEN Len(game_data)
                            ELSE BatchLimit),
                     LAMBDA g : ~HasKey(tbl, g.gameID))

\* The selection loop: the games of the batch not yet in Games, in batch order,
\* until BatchLimit of them are collected.
RECURSIVE ToInsert(_, _, _)
ToInsert(tbl, game_data, acc) ==
    IF Len(game_data) = 0 \/ Len(acc) >= BatchLimit THEN acc
    ELSE ToInsert(tbl, Tail(game_data),
                  IF HasKey(tbl, game_data[1].gameID) THEN acc
                  ELSE Append(acc, game_data[1]))

\* The insertion loop, inside one transaction.
RECURSIVE InsertAll(_, _)
InsertAll(tbl, to_insert) ==
    IF Len(to_insert) = 0 THEN [t |-> tbl, err |-> "none"]
    ELSE IF HomeAwayId(to_insert[1].home_away) = None
         THEN [t |-> tbl, err |-> "TypeError"]
         \* a list cannot be bound to a "?": sqlite3 raises InterfaceError or,
         \* from Python 3.11 on, ProgrammingError, both of them sqlite3.Error
         ELSE IF to_insert[1].max_wind_speed = EmptyList
         THEN [t |-> tbl, err |-> "sqlite3.Error"]
         ELSE LET r == SqlInsertPK(tbl, GamesRow(to_insert[1]))
              IN  IF r.err # "none" THEN r
                  ELSE InsertAll(r.t, Tail(to_insert))

\* commit() is reached only when no INSERT raised: otherwise nothing is kept.
insert_game_data(tbl, game_data) ==
    LET r == InsertAll(tbl, ToInsert(tbl, game_data, <<>>))
    IN  IF r.err = "none" THEN r ELSE [t |-> tbl, err |-> r.err]

\* ------------------------------------------- the persistence operations
\* called directly, with the records the extraction can hand them
ResultArgs ==
    {[gameID |-> g, date |-> v[1], home_away |-> v[2], opponent |-> v[3],
      total_points |-> v[4]] :
        g \in GameIDs,
        v \in {<<<<"2024-09-07">>, "Home", "Ohio State", 30>>,
               <<<<"2024-09-07">>, "Away", "Ohio State", 24>>,
               <<<<"2024-11-30">>, "Away", "Hawaii", None>>}}

StatsArgs ==
    {[gameID |-> g, rushingAttempts |-> v[1], completionAttempts |-> v[2],
      C_ATT |-> v[3], rushingYards |-> v[4], passingYards |-> v[5]] :
        g \in GameIDs,
        v \in {<<<<"4", "5">>, <<"2", "9">>, <<"1", "8", "-", "2", "9">>,
                 <<"2", "0", "0">>, <<"2", "5", "0">>>>,
               <<<<"3", "0">>, <<"2", "0">>, <<"1", "0", "-", "2", "0">>,
                 <<"9", "0">>, <<"9", "9">>>>,
               <<NoneStr, <<"0">>, <<"0", "-", "0">>, NoneStr, NoneStr>>}}

NoStats ==
    [rushingAttempts |-> NoneStr, completionAttempts |-> NoneStr,
     completed |-> None, attempted |-> None,
     rushingYards |-> NoneStr, passingYards |-> NoneStr]

NoWeather == [mean_temperature |-> None, max_wind_speed |-> None]

\* {**game_result, **game_stats, **weather_data}
Combined(result, stats, weather) ==
    [gameID |-> result.gameID, date |-> result.date,
     home_away |-> result.home_away, opponent |-> result.opponent,
     total_points |-> result.total_points,
     rushingAttempts |-> stats.rushingAttempts,
     completionAttempts |-> stats.completionAttempts,
     completed |-> stats.completed, attempted |-> stats.attempted,
     rushingYards |-> stats.rushingYards, passingYards |-> stats.passingYards,
     mean_temperature |-> weather.mean_temperature,
     max_wind_speed |-> weather.max_wind_speed]

GameArgs ==
    {Combined(r, NoStats, NoWeather) : r \in ResultArgs}
    \cup
    {Combined(r,
              [rushingAttempts |-> <<"4", "5">>, completionAttempts |-> <<"2", "9">>,
               completed |-> 18, attempted |-> 29,
               rushingYards |-> <<"2", "0", "0">>, passingYards |-> <<"2", "5", "0">>],
              [mean_temperature |-> 40, max_wind_speed |-> 14]) :
        r \in {x \in ResultArgs : x.home_away = "Home"}}

InitEmpty ==
    /\ GameResults = <<>> /\ GameStats = <<>> /\ WeatherData = <<>>
    /\ Games = <<>>
    /\ games_list = <<>> /\ teams_list = <<>> /\ weather_list = <<>>
    /\ call = [op |-> "none"]
    /\ err = "none"
    /\ out = NoOut
    /\ pc = Idle
    /\ net = Free /\ run = 1 /\ files = NoFiles

InitStore ==
    /\ script \in {"final", "apis"}
    /\ upstream = [games |-> <<>>, teams |-> <<>>]
    /\ InitEmpty

Call_insert_game_results ==
    \E a \in ResultArgs :
        LET r == insert_game_results(GameResults, a) IN
        /\ script = "final"
        /\ GameResults' = r.t
        /\ err' = r.err
        /\ call' = [op |-> "insert_game_results", arg |-> a,
                    had |-> HasKey(GameResults, a.gameID)]
        /\ UNCHANGED <<files, net, run, pc, script, upstream, GameStats, WeatherData, apisState, out>>

Call_insert_game_stats ==
    \E a \in StatsArgs :
        LET r == insert_game_stats(GameStats, a) IN
        /\ script = "final"
        /\ GameStats' = r.t
        /\ err' = r.err
        /\ call' = [op |-> "insert_game_stats", arg |-> a,
                    had |-> HasKey(GameStats, a.gameID)]
        /\ UNCHANGED <<files, net, run, pc, script, upstream, GameResults, WeatherData, apisState, out>>

Call_insert_game_data ==
    \E b \in {<<>>} \cup {<<g>> : g \in GameArgs} :
        LET r == insert_game_data(Games, b) IN
        /\ script = "apis"
        /\ Games' = r.t
        /\ err' = r.err
        /\ call' = [op |-> "insert_game_data", arg |-> b,
                    had |-> \E i \in 1..Len(b) : HasKey(Games, b[i].gameID)]
        /\ UNCHANGED <<files, net, run, pc, script, upstream, finalStore, games_list, teams_list,
                       weather_list, out>>

NextStore ==
    \/ Call_insert_game_results
    \/ Call_insert_game_stats
    \/ Call_insert_game_data

SpecStore == InitStore /\ [][NextStore]_vars

\* --------------------------------------------------- the Game Source
StartDates == {d \o <<"T", "16:00:00.000Z">> : d \in Dates}

RawGames ==
    {[id |-> 0, start_date |-> sd, home_team |-> m[1], away_team |-> m[2],
      home_points |-> p[1], away_points |-> p[2]] :
        sd \in StartDates,
        m \in {<<"Michigan", "Ohio State">>, <<"Ohio State", "Michigan">>,
               <<"Hawaii", "Michigan">>},
        p \in {<<30, 24>>, <<None, None>>}}

Stat(c, v) == [category |-> c, stat |-> v]

OpponentBlock ==
    [school |-> "Ohio State",
     stats |-> <<Stat("rushingAttempts", <<"3", "3">>),
                 Stat("completionAttempts", <<"2", "2", "-", "4", "0">>),
                 Stat("rushingYards", <<"1", "1", "0">>),
                 Stat("netPassingYards", <<"3", "0", "0">>)>>]

MichiganBlocks ==
    {[school |-> "Michigan", stats |-> st] :
        st \in {<<Stat("rushingAttempts", <<"4", "5">>),
                  Stat("completionAttempts", <<"1", "8", "-", "2", "9">>),
                  Stat("rushingYards", <<"2", "0", "0">>),
                  Stat("netPassingYards", <<"2", "5", "0">>)>>,
                <<Stat("netPassingYards", <<"9", "9">>),
                  Stat("completionAttempts", <<"1", "0", "-", "2", "0">>),
                  Stat("rushingAttempts", <<"3", "0">>)>>,
                <<Stat("rushingAttempts", <<"4", "5">>),
                  Stat("rushingYards", <<"2", "0", "0">>)>>,
                <<Stat("rushingAttempts", <<"4", "5">>),
                  Stat("completionAttempts", <<"1", "2">>)>>,
                <<Stat("completionAttempts", <<"1", "-", "2", "-", "3">>)>>,
                <<Stat("completionAttempts", <<"x", "-", "2">>)>>}}

RawTeamStats ==
    {[id |-> 0, teams |-> t] :
        t \in {<<OpponentBlock>>} \cup {<<OpponentBlock, b>> : b \in MichiganBlocks}
              \cup {<<b, OpponentBlock>> : b \in MichiganBlocks}}

\* One season as the Game Source holds it; the two sides vary one at a time.
SeasonGames ==
    [i \in 1..MaxResp |->
        [id |-> ((i - 1) % MaxGameID) + 1,
         start_date |-> <<"2024-09-07", "T", "16:00:00.000Z">>,
         home_team |-> "Michigan", away_team |-> "Ohio State",
         home_points |-> 30, away_points |-> 24]]

\* A response of up to MaxResp games, each under its own id
Response(raw) ==
    UNION {{[i \in 1..n |-> [f[i] EXCEPT !.id = ((i - 1) % MaxGameID) + 1]] :
               f \in [1..n -> raw]} : n \in 0..MaxResp}

Seasons(games, teams) ==
    {[games |-> g, teams |-> <<>>] : g \in Response(games)}
    \cup {[games |-> SeasonGames, teams |-> t] : t \in Response(teams)}

\* ------------------------------------------------ the field extraction
\* final.py 121-137 (the same lines are apis.py 236-260 and 206Final.py 121-139)
GameResultAway(game) ==
    [gameID |-> game.id,
     date |-> Split(game.start_date, "T")[1],
     home_away |-> "Away",
     opponent |-> game.home_team,
     total_points |-> game.away_points]

GameResultOf(game) ==
    IF game.home_team = "Michigan"
    THEN [gameID |-> game.id,
          date |-> Split(game.start_date, "T")[1],
          home_away |-> "Home",
          opponent |-> game.away_team,
          total_points |-> game.home_points]
    ELSE [gameID |-> game.id,
          date |-> Split(game.start_date, "T")[1],
          home_away |-> "Away",
          opponent |-> game.home_team,
          total_points |-> game.away_points]

\* next((team for team in game['teams'] if team['school'] == 'Michigan'), None)
NoBlock == [school |-> "None", stats |-> <<>>]

MichiganData(game) ==
    LET hit == {i \in 1..Len(game.teams) : game.teams[i].school = "Michigan"}
    IN  IF hit = {} THEN NoBlock
        ELSE game.teams[CHOOSE i \in hit : \A j \in hit : i <= j]

\* next((stat['stat'] for stat in stats if stat['category'] == category), None)
StatOf(block, category) ==
    LET hit == {i \in 1..Len(block.stats) : block.stats[i].category = category}
    IN  IF hit = {} THEN NoneStr
        ELSE block.stats[CHOOSE i \in hit : \A j \in hit : i <= j].stat

\* final.py: the loop of get_michigan_game_results over the response
RECURSIVE final_game_results_loop(_, _)
final_game_results_loop(tbl, data) ==
    IF Len(data) = 0 THEN [t |-> tbl, err |-> "none"]
    ELSE LET r == insert_game_results(tbl, GameResultOf(data[1]))
         IN  IF r.err # "none" THEN r
             ELSE final_game_results_loop(r.t, Tail(data))

\* final.py: one game of get_michigan_team_results
final_team_results_game(tbl, game) ==
    LET michigan_data == MichiganData(game)
        completion_attempts == StatOf(michigan_data, "completionAttempts")
        parts == Split(completion_attempts, "-")
    IN  IF michigan_data = NoBlock THEN [t |-> tbl, err |-> "none"]
        ELSE IF completion_attempts = NoneStr
             THEN [t |-> tbl, err |-> "AttributeError"]
        ELSE IF Len(parts) < 2 THEN [t |-> tbl, err |-> "IndexError"]
        ELSE insert_game_stats(tbl,
                 [gameID |-> game.id,
                  rushingAttempts |-> StatOf(michigan_data, "rushingAttempts"),
                  completionAttempts |-> parts[2],
                  C_ATT |-> completion_attempts,
                  rushingYards |-> StatOf(michigan_data, "rushingYards"),
                  passingYards |-> StatOf(michigan_data, "netPassingYards")])

RECURSIVE final_team_results_loop(_, _)
final_team_results_loop(tbl, data) ==
    IF Len(data) = 0 THEN [t |-> tbl, err |-> "none"]
    ELSE LET r == final_team_results_game(tbl, data[1])
         IN  IF r.err # "none" THEN r
             ELSE final_team_results_loop(r.t, Tail(data))

\* apis.py: the loop of get_michigan_game_results appends to self.games_list
RECURSIVE apis_game_results_loop(_, _)
apis_game_results_loop(lst, data) ==
    IF Len(data) = 0 THEN lst
    ELSE apis_game_results_loop(Append(lst, GameResultOf(data[1])), Tail(data))

\* apis.py: the local variables of get_michigan_team_results, unbound until
\* a game with a Michigan block has been read
Unbound ==
    [bound |-> FALSE, rushing_attempts |-> NoneStr, pass_attempts |-> NoneStr,
     completed |-> None, attempted |-> None,
     rushing_yards |-> NoneStr, passing_yards |-> NoneStr]

\* apis.py 284-291: the body of "if michigan_data:"
apis_team_locals(loc, game) ==
    LET michigan_data == MichiganData(game)
        c_att == StatOf(michigan_data, "completionAttempts")
        parts == Split(c_att, "-")
    IN  IF michigan_data = NoBlock THEN [loc |-> loc, err |-> "none"]
        ELSE IF c_att = NoneStr THEN [loc |-> loc, err |-> "AttributeError"]
        ELSE IF Len(parts) # 2 \/ ~IsInt(parts[1]) \/ ~IsInt(parts[2])
             THEN [loc |-> loc, err |-> "ValueError"]
        ELSE [loc |-> [bound |-> TRUE,
                       rushing_attempts |-> StatOf(michigan_data, "rushingAttempts"),
                       pass_attempts |-> parts[2],
                       completed |-> IntOf(parts[1]),
                       attempted |-> IntOf(parts[2]),
                       rushing_yards |-> StatOf(michigan_data, "rushingYards"),
                       passing_yards |-> StatOf(michigan_data, "netPassingYards")],
              err |-> "none"]

\* apis.py 293-301: self.teams_list.append({...}), outside the "if"
TeamsEntry(game_id, loc) ==
    [gameID |-> game_id,
     rushingAttempts |-> loc.rushing_attempts,
     completionAttempts |-> loc.pass_attempts,
     completed |-> loc.completed,
     attempted |-> loc.attempted,
     rushingYards |-> loc.rushing_yards,
     passingYards |-> loc.passing_yards]

RECURSIVE apis_team_results_loop(_, _, _)
apis_team_results_loop(lst, loc, data) ==
    IF Len(data) = 0 THEN [t |-> lst, err |-> "none"]
    ELSE LET l == apis_team_locals(loc, data[1])
         IN  IF l.err # "none" THEN [t |-> lst, err |-> l.err]
             ELSE IF ~l.loc.bound THEN [t |-> lst, err |-> "UnboundLocalError"]
             ELSE apis_team_results_loop(Append(lst, TeamsEntry(data[1].id, l.loc)),
                                         l.loc, Tail(data))

\* ---------------------------------------------- the load operations
\* fetch_data / fetch_football_data: the response, or None when the request
\* failed ("if data:" then skips the loop, as it does for an empty response)
\* (the mutant of Fetched hands on a response whether the request failed or not)
FetchedAnyway(ok, response) == response

Fetched(ok, response) == IF ok THEN response ELSE <<>>

Init ==
    /\ script \in {"final", "apis"}
    /\ upstream \in Seasons(RawGames, RawTeamStats)
    /\ InitEmpty

final_get_michigan_game_results ==
    \E ok \in BOOLEAN :
        LET r == final_game_results_loop(GameResults, Fetched(ok, upstream.games)) IN
        /\ script = "final"
        /\ GameResults' = r.t
        /\ err' = r.err
        /\ call' = [op |-> "get_michigan_game_results", ok |-> ok]
        /\ UNCHANGED <<files, net, run, pc, script, upstream, GameStats, WeatherData, apisState, out>>

final_get_michigan_team_results ==
    \E ok \in BOOLEAN :
        LET r == final_team_results_loop(GameStats, Fetched(ok, upstream.teams)) IN
        /\ script = "final"
        /\ GameStats' = r.t
        /\ err' = r.err
        /\ call' = [op |-> "get_michigan_team_results", ok |-> ok]
        /\ UNCHANGED <<files, net, run, pc, script, upstream, GameResults, WeatherData, apisState, out>>

apis_get_michigan_game_results ==
    \E ok \in BOOLEAN :
        /\ script = "apis"
        /\ Len(games_list) + Len(upstream.games) <= MaxList
        /\ games_list' = apis_game_results_loop(games_list, Fetched(ok, upstream.games))
        /\ err' = "none"
        /\ call' = [op |-> "get_michigan_game_results", ok |-> ok]
        /\ UNCHANGED <<files, net, run, pc, script, upstream, finalStore, Games, teams_list,
                       weather_list, out>>

apis_get_michigan_team_results ==
    \E ok \in BOOLEAN :
        LET r == apis_team_results_loop(teams_list, Unbound,
                                        Fetched(ok, upstream.teams)) IN
        /\ script = "apis"
        /\ Len(teams_list) + Len(upstream.teams) <= MaxList
        /\ teams_list' = r.t
        /\ err' = r.err
        /\ call' = [op |-> "get_michigan_team_results", ok |-> ok]
        /\ UNCHANGED <<files, net, run, pc, script, upstream, finalStore, Games, games_list,
                       weather_list, out>>

Next ==
    \/ final_get_michigan_game_results
    \/ final_get_michigan_team_results
    \/ apis_get_michigan_game_results
    \/ apis_get_michigan_team_results

Spec == Init /\ [][Next]_vars

\* ------------------------------------ calculations.py: the report passes
\* SELECT ... FROM Games AS gr JOIN HomeAway h ON gr.home_away_id = h.id:
\* every row insert_game_data stored carries the id of a HomeAway label.
JoinedGames(tbl) == SelectSeq(tbl, LAMBDA r : r.home_away_id \in {1, 2})

RECURSIVE SumInts(_)
SumInts(xs) == IF Len(xs) = 0 THEN 0 ELSE xs[1] + SumInts(Tail(xs))

\* the mutant of AttemptShares: the test for null stays, the test for 0 goes
AttemptSharesUnguarded(rushingAttempts, completionAttempts) ==
    IF rushingAttempts # None /\ completionAttempts # None
    THEN LET total_attempts == rushingAttempts + completionAttempts
         IN  IF total_attempts = 0
             THEN [pass |-> Zero, rush |-> Zero, err |-> "ZeroDivisionError"]
             ELSE [pass |-> Frac(100 * completionAttempts, total_attempts),
                   rush |-> Frac(100 * rushingAttempts, total_attempts),
                   err |-> "none"]
    ELSE [pass |-> Zero, rush |-> Zero, err |-> "none"]

\* (x / total) * 100 for both attempt counts, 0 and 0 when one is unknown
AttemptShares(rushingAttempts, completionAttempts) ==
    IF rushingAttempts # None /\ completionAttempts \notin {None, 0}
    THEN IF rushingAttempts = Text \/ completionAttempts = Text
         THEN [pass |-> Zero, rush |-> Zero, err |-> "TypeError"]
         ELSE LET total_attempts == rushingAttempts + completionAttempts
              IN  [pass |-> Frac(100 * completionAttempts, total_attempts),
                   rush |-> Frac(100 * rushingAttempts, total_attempts),
                   err |-> "none"]
    ELSE [pass |-> Zero, rush |-> Zero, err |-> "none"]

WindTierLoose(max_wind_speed) ==
    IF max_wind_speed = None THEN "skip"
    ELSE IF max_wind_speed < 10 THEN "low"
    ELSE IF 10 <= max_wind_speed /\ max_wind_speed <= 20 THEN "moderate"
    ELSE "high"

WindTier(max_wind_speed) ==
    IF max_wind_speed = None THEN "skip"
    ELSE IF max_wind_speed < 10 THEN "low"
    ELSE IF 10 <= max_wind_speed /\ max_wind_speed < 20 THEN "moderate"
    ELSE "high"

NoResults ==
    [c \in {"low", "moderate", "high"} |->
        [passTotal |-> Zero, rushTotal |-> Zero, count |-> 0]]

RECURSIVE wind_results(_, _)
wind_results(rows, results) ==
    IF Len(rows) = 0 THEN [r |-> results, err |-> "none"]
    ELSE LET sh == AttemptShares(rows[1].rushingAttempts, rows[1].completionAttempts)
             category == WindTier(rows[1].max_wind_speed)
         IN  IF sh.err # "none" THEN [r |-> results, err |-> sh.err]
             ELSE IF category = "skip" THEN wind_results(Tail(rows), results)
             ELSE wind_results(Tail(rows),
                      [results EXCEPT ![category] =
                          [passTotal |-> RAdd(@.passTotal, sh.pass),
                           rushTotal |-> RAdd(@.rushTotal, sh.rush),
                           count |-> @.count + 1]])

AverageUnguarded(total, count) ==
    IF count = 0 THEN [v |-> Zero, err |-> "ZeroDivisionError"]
    ELSE [v |-> RDiv(total, count), err |-> "none"]

\* (total / count) if count > 0 else 0; "sum(xs) / len(xs) if xs else 0"
Average(total, count) ==
    IF count > 0 THEN [v |-> RDiv(total, count), err |-> "none"]
    ELSE [v |-> Zero, err |-> "none"]

\* sum(points) / len(points) over a list of total_points: sum() raises on None
PointsAverage(points) ==
    IF \E i \in 1..Len(points) : points[i] = None
    THEN [v |-> Zero, err |-> "TypeError"]
    ELSE Average(<<SumInts(points), 1>>, Len(points))

FirstErr(S) == IF S = {} THEN "none" ELSE CHOOSE e \in S : TRUE

\* get_average_percentage_by_wind_speed
wind_speed_pass(tbl) ==
    LET w == wind_results(JoinedGames(tbl), NoResults)
        avg == [c \in DOMAIN NoResults |->
                   [averagePass |-> Average(w.r[c].passTotal, w.r[c].count),
                    averageRush |-> Average(w.r[c].rushTotal, w.r[c].count),
                    count |-> w.r[c].count]]
        errs == {avg[c].averagePass.err : c \in DOMAIN avg} \ {"none"}
    IN  IF w.err # "none" THEN [pass |-> "wind_speed", done |-> FALSE, err |-> w.err]
        ELSE IF errs # {}
             THEN [pass |-> "wind_speed", done |-> FALSE, err |-> FirstErr(errs)]
        ELSE [pass |-> "wind_speed", done |-> TRUE, err |-> "none",
              results |-> w.r,
              averages |-> [c \in DOMAIN avg |->
                               [averagePass |-> avg[c].averagePass.v,
                                averageRush |-> avg[c].averageRush.v,
                                count |-> avg[c].count]]]

TemperatureCategoryOpen(temperature) ==
    IF temperature = None THEN "skip"
    ELSE IF temperature < 32 THEN "Cold"
    ELSE IF 32 <= temperature /\ temperature < 50 THEN "Moderate"
    ELSE "Warm"

TemperatureCategory(temperature) ==
    IF temperature = None THEN "skip"
    ELSE IF temperature < 32 THEN "Cold"
    ELSE IF 32 <= temperature /\ temperature <= 50 THEN "Moderate"
    ELSE "Warm"

\* the entries a pass appends to the list of category c, in row order:
\* names[i] is the category the pass chose for row i
RECURSIVE Filed(_, _, _)
Filed(entries, names, c) ==
    IF Len(entries) = 0 THEN <<>>
    ELSE (IF names[1] = c THEN <<entries[1]>> ELSE <<>>)
             \o Filed(Tail(entries), Tail(names), c)

\* plot_average_points_by_temperature, and the dict comprehension of
\* get_avg_score_per_percentage: the averages of the lists of total_points
PointsAverages(lists) ==
    LET avg == [c \in DOMAIN lists |-> PointsAverage(lists[c])]
        errs == {avg[c].err : c \in DOMAIN lists} \ {"none"}
    IN  [v |-> [c \in DOMAIN lists |-> avg[c].v], err |-> FirstErr(errs)]

\* get_total_points_by_temperature
temperature_pass(tbl) ==
    LET rows == JoinedGames(tbl)
        names == [i \in 1..Len(rows) |-> TemperatureCategory(rows[i].mean_temperature)]
        points == [i \in 1..Len(rows) |-> rows[i].total_points]
        categories ==
            [c \in {"Cold", "Moderate", "Warm"} |-> Filed(points, names, c)]
        avg == PointsAverages(categories)
    IN  IF avg.err # "none"
        THEN [pass |-> "temperature", done |-> FALSE, err |-> avg.err,
              categories |-> categories]
        ELSE [pass |-> "temperature", done |-> TRUE, err |-> "none",
              categories |-> categories, averages |-> avg.v]

\* calculations.py 359-365: the completion percentage of a Games row
CompletionOfRow(completed, attempted) ==
    IF completed # None /\ attempted # None
    THEN IF attempted > 0 THEN Frac(100 * completed, attempted) ELSE Zero
    ELSE Zero

WindCategoryOpen(max_wind_speed) ==
    IF max_wind_speed = None THEN "skip"
    ELSE IF max_wind_speed < 10 THEN "Low Wind"
    ELSE IF 10 <= max_wind_speed /\ max_wind_speed < 20 THEN "Moderate Wind"
    ELSE "High Wind"

WindCategory(max_wind_speed) ==
    IF max_wind_speed = None THEN "skip"
    ELSE IF max_wind_speed < 10 THEN "Low Wind"
    ELSE IF 10 <= max_wind_speed /\ max_wind_speed <= 20 THEN "Moderate Wind"
    ELSE "High Wind"

\* plot_average_completion_by_wind_speed
CompletionAverages(lists) ==
    LET avg == [c \in DOMAIN lists |-> Average(RSum(lists[c]), Len(lists[c]))]
        errs == {avg[c].err : c \in DOMAIN lists} \ {"none"}
    IN  [v |-> [c \in DOMAIN lists |-> avg[c].v], err |-> FirstErr(errs)]

\* get_completion_by_wind_speed
completion_pass(tbl) ==
    LET rows == JoinedGames(tbl)
        names == [i \in 1..Len(rows) |-> WindCategory(rows[i].max_wind_speed)]
        pcts == [i \in 1..Len(rows) |->
                    CompletionOfRow(rows[i].completed, rows[i].attempted)]
        categories ==
            [c \in {"Low Wind", "Moderate Wind", "High Wind"} |->
                Filed(pcts, names, c)]
        avg == CompletionAverages(categories)
    IN  IF avg.err # "none"
        THEN [pass |-> "completion", done |-> FALSE, err |-> avg.err]
        ELSE [pass |-> "completion", done |-> TRUE, err |-> "none",
              categories |-> categories,
              averages |-> avg.v]

\* calculations.py 478-487: the completion percentage of a Games row
ScoreCompletionOfRow(completed, attempted) ==
    IF completed # None /\ attempted # None
    THEN IF attempted # 0 THEN Frac(100 * completed, attempted) ELSE Zero
    ELSE Zero

\* calculations.py 490-497: the if/elif chain over the percentage
CompletionRange(completion_percentage) ==
    IF RLe(completion_percentage, 50) THEN "0-50"
    ELSE IF RGe(completion_percentage, 51) /\ RLe(completion_percentage, 60)
         THEN "51-60"
    ELSE IF RGe(completion_percentage, 61) /\ RLe(completion_percentage, 70)
         THEN "61-70"
    ELSE IF RGe(completion_percentage, 71) /\ RLe(completion_percentage, 100)
         THEN "71-100"
    ELSE "none"

\* get_avg_score_per_percentage; placed is the range the if/elif chain chose
\* for each row, "none" when no branch was taken
score_pass(tbl) ==
    LET rows == JoinedGames(tbl)
        placed == [i \in 1..Len(rows) |->
                      CompletionRange(ScoreCompletionOfRow(rows[i].completed,
                                                           rows[i].attempted))]
        points == [i \in 1..Len(rows) |-> rows[i].total_points]
        completion_ranges ==
            [c \in {"0-50", "51-60", "61-70", "71-100"} |-> Filed(points, placed, c)]
        avg == PointsAverages(completion_ranges)
    IN  IF avg.err # "none"
        THEN [pass |-> "score", done |-> FALSE, err |-> avg.err,
              placed |-> placed, completion_ranges |-> completion_ranges]
        ELSE [pass |-> "score", done |-> TRUE, err |-> "none",
              placed |-> placed, completion_ranges |-> completion_ranges,
              averages |-> avg.v]

\* ---------------------------------- the report passes over a loaded Games
\* What fetch_michigan_data combines for one game: the result, the stats entry
\* read from a completionAttempts stat, the weather of the day.
StatsFrom(rushing, c_att) ==
    TeamsEntry(0, apis_team_locals(Unbound,
        [id |-> 0,
         teams |-> <<[school |-> "Michigan",
                      stats |-> <<Stat("rushingAttempts", rushing),
                                  Stat("completionAttempts", c_att)>>]>>]).loc)

CompletionSamples ==
    {<<"0", "-", "0">>, <<"1", "-", "2">>, <<"5", "1", "-", "1", "0", "0">>,
     <<"2", "6", "-", "5", "1">>, <<"3", "-", "5">>, <<"2", "0", "-", "3", "3">>,
     <<"6", "1", "-", "1", "0", "0">>, <<"7", "-", "1", "0">>,
     <<"1", "2", "-", "1", "7">>, <<"7", "1", "-", "1", "0", "0">>,
     <<"1", "-", "1">>}

WindSamples == {None, 9, 10, 19, 20, 21}
TemperatureSamples == {None, 31, 32, 50, 51}

AggResult(points) ==
    [gameID |-> 0, date |-> <<"2024-09-07">>, home_away |-> "Home",
     opponent |-> "Ohio State", total_points |-> points]

\* Three kinds of game: the wind speed varies, the temperature and the points
\* vary, the completion stat varies.
AggRecords ==
    {Combined(AggResult(30), NoStats, [mean_temperature |-> 40, max_wind_speed |-> w]) :
        w \in WindSamples}
    \cup
    {Combined(AggResult(30), StatsFrom(<<"4", "5">>, <<"1", "8", "-", "2", "9">>),
              [mean_temperature |-> 40, max_wind_speed |-> w]) : w \in {9, 20}}
    \cup
    {Combined(AggResult(30), StatsFrom(<<"4", "5">>, <<"0", "-", "0">>),
              [mean_temperature |-> 40, max_wind_speed |-> 9]),
     Combined(AggResult(30), StatsFrom(<<"0">>, <<"1", "-", "2">>),
              [mean_temperature |-> 40, max_wind_speed |-> 10])}
    \cup
    {Combined(AggResult(30), NoStats, [mean_temperature |-> t, max_wind_speed |-> None]) :
        t \in TemperatureSamples}
    \cup
    {Combined(AggResult(p), NoStats, [mean_temperature |-> 32, max_wind_speed |-> None]) :
        p \in {None, 10}}
    \cup
    {Combined(AggResult(30), st, NoWeather) :
        st \in {NoStats} \cup {StatsFrom(<<"4", "5">>, c) : c \in CompletionSamples}}
    \cup
    {Combined(AggResult(10), StatsFrom(<<"4", "5">>, <<"1", "-", "2">>), NoWeather)}

\* the combined_data of a season of n games, game i with id i
AggBatch(n, f) == [i \in 1..n |-> [f[i] EXCEPT !.gameID = i]]

InitAgg ==
    /\ script = "apis"
    /\ upstream = [games |-> <<>>, teams |-> <<>>]
    /\ GameResults = <<>> /\ GameStats = <<>> /\ WeatherData = <<>>
    /\ \E n \in 0..MaxGameID :
           \E f \in [1..n -> AggRecords] :
               Games = insert_game_data(<<>>, AggBatch(n, f)).t
    /\ games_list = <<>> /\ teams_list = <<>> /\ weather_list = <<>>
    /\ call = [op |-> "insert_game_data"]
    /\ err = "none"
    /\ out = NoOut
    /\ pc = Idle
    /\ net = Free /\ run = 1 /\ files = NoFiles

calc_get_average_percentage_by_wind_speed ==
    LET o == wind_speed_pass(Games) IN
    /\ script = "apis" /\ pc = Idle
    /\ out' = o
    /\ err' = o.err
    /\ call' = [op |-> "get_average_percentage_by_wind_speed"]
    /\ files' = Written(files, o)
    /\ pc' = Returned
    /\ UNCHANGED <<net, run, script, upstream, finalStore, apisState>>

calc_get_total_points_by_temperature ==
    LET o == temperature_pass(Games) IN
    /\ script = "apis" /\ pc = Idle
    /\ out' = o
    /\ err' = o.err
    /\ call' = [op |-> "get_total_points_by_temperature"]
    /\ files' = Written(files, o)
    /\ pc' = Returned
    /\ UNCHANGED <<net, run, script, upstream, finalStore, apisState>>

calc_get_completion_by_wind_speed ==
    LET o == completion_pass(Games) IN
    /\ script = "apis" /\ pc = Idle
    /\ out' = o
    /\ err' = o.err
    /\ call' = [op |-> "get_completion_by_wind_speed"]
    /\ files' = Written(files, o)
    /\ pc' = Returned
    /\ UNCHANGED <<net, run, script, upstream, finalStore, apisState>>

calc_get_avg_score_per_percentage ==
    LET o == score_pass(Games) IN
    /\ script = "apis" /\ pc = Idle
    /\ out' = o
    /\ err' = o.err
    /\ call' = [op |-> "get_avg_score_per_percentage"]
    /\ files' = Written(files, o)
    /\ pc' = Returned
    /\ UNCHANGED <<net, run, script, upstream, finalStore, apisState>>

NextAgg ==
    \/ calc_get_average_percentage_by_wind_speed
    \/ calc_get_total_points_by_temperature
    \/ calc_get_completion_by_wind_speed
    \/ calc_get_avg_score_per_percentage

SpecAgg == InitAgg /\ [][NextAgg]_vars

\* ------------------- final.py and 206Final.py: the passes that parse C_ATT
\* completed, attempted = map(int, c_att.split('-')): a ValueError unless the
\* string splits into exactly two parts that int() accepts
UnpackInts(c_att) ==
    LET parts == Split(c_att, "-")
    IN  IF Len(parts) # 2 \/ ~IsInt(parts[1]) \/ ~IsInt(parts[2])
        THEN [err |-> "ValueError", completed |-> 0, attempted |-> 0]
        ELSE [err |-> "none", completed |-> IntOf(parts[1]),
              attempted |-> IntOf(parts[2])]

completion_percentage_unguarded(c_att) ==
    IF c_att # NoneStr
    THEN LET u == UnpackInts(c_att)
         IN  IF u.err = "ValueError" THEN [v |-> Zero, err |-> "none"]
             ELSE IF u.attempted = 0 THEN [v |-> Zero, err |-> "ZeroDivisionError"]
             ELSE [v |-> Frac(100 * u.completed, u.attempted), err |-> "none"]
    ELSE [v |-> Zero, err |-> "none"]

\* final.py 645-653 (get_completion_by_wind_speed)
wind_completion_percentage(c_att) ==
    IF c_att # NoneStr
    THEN LET u == UnpackInts(c_att)
         IN  IF u.err = "ValueError" THEN [v |-> Zero, err |-> "none"]
             ELSE IF u.attempted > 0
                  THEN [v |-> Frac(100 * u.completed, u.attempted), err |-> "none"]
                  ELSE [v |-> Zero, err |-> "none"]
    ELSE [v |-> Zero, err |-> "none"]

\* final.py 746-756 (get_avg_score_per_percentage)
score_completion_percentage(c_att) ==
    IF c_att # NoneStr
    THEN LET u == UnpackInts(c_att)
         IN  IF u.err = "ValueError" THEN [v |-> Zero, err |-> "none"]
             ELSE IF u.attempted # 0
                  THEN [v |-> Frac(100 * u.completed, u.attempted), err |-> "none"]
                  ELSE [v |-> Zero, err |-> "none"]
    ELSE [v |-> Zero, err |-> "none"]

\* 206Final.py 307-321 (get_completion_for_wind_chill)
chill_completion_percentage(c_att) ==
    IF c_att # NoneStr
    THEN LET u == UnpackInts(c_att)
         IN  IF u.err = "ValueError" THEN [v |-> Zero, err |-> "none"]
             ELSE IF u.attempted # 0
                  THEN [v |-> Frac(100 * u.completed, u.attempted), err |-> "none"]
                  ELSE [v |-> Zero, err |-> "none"]
    ELSE [v |-> Zero, err |-> "none"]

RECURSIVE Flatten(_)
Flatten(ss) == IF Len(ss) = 0 THEN <<>> ELSE ss[1] \o Flatten(Tail(ss))

\* GameStats AS gs JOIN GameResults AS gr ON gs.gameID = gr.gameID
StatsWithResults(gs, gr) ==
    Flatten([i \in 1..Len(gs) |->
        LET m == SelectSeq(gr, LAMBDA r : r.gameID = gs[i].gameID)
        IN  [j \in 1..Len(m) |->
                [gameID |-> m[j].gameID, date |-> m[j].date, C_ATT |-> gs[i].C_ATT,
                 total_points |-> m[j].total_points]]])

\* ... JOIN WeatherData AS wd ON gr.date = wd.date
WithWeather(rows, wd) ==
    Flatten([i \in 1..Len(rows) |->
        LET m == SelectSeq(wd, LAMBDA r : r.date = rows[i].date)
        IN  [j \in 1..Len(m) |->
                [date |-> rows[i].date, C_ATT |-> rows[i].C_ATT,
                 max_wind_speed |-> m[j].max_wind_speed]]])

\* the completion_percentage a pass computed for each row it read
Percentages(rows, pcts) ==
    [i \in 1..Len(rows) |->
        [c_att |-> rows[i].C_ATT, completion_percentage |-> pcts[i].v]]

\* the exception that left the row loop, if any
RaisedBy(pcts) == FirstErr({pcts[i].err : i \in 1..Len(pcts)} \ {"none"})

\* final.py get_completion_by_wind_speed
final_completion_pass(gs, gr, wd) ==
    LET rows == WithWeather(StatsWithResults(gs, gr), wd)
        pcts == [i \in 1..Len(rows) |-> wind_completion_percentage(rows[i].C_ATT)]
        names == [i \in 1..Len(rows) |-> WindCategory(rows[i].max_wind_speed)]
        categories ==
            [c \in {"Low Wind", "Moderate Wind", "High Wind"} |->
                Filed([i \in 1..Len(rows) |-> pcts[i].v], names, c)]
        avg == CompletionAverages(categories)
    IN  IF RaisedBy(pcts) # "none"
        THEN [pass |-> "final_completion", done |-> FALSE, err |-> RaisedBy(pcts)]
        ELSE IF avg.err # "none"
        THEN [pass |-> "final_completion", done |-> FALSE, err |-> avg.err]
        ELSE [pass |-> "final_completion", done |-> TRUE, err |-> "none",
              percentages |-> Percentages(rows, pcts),
              categories |-> categories, averages |-> avg.v]

\* final.py get_avg_score_per_percentage
final_score_pass(gs, gr) ==
    LET rows == StatsWithResults(gs, gr)
        pcts == [i \in 1..Len(rows) |-> score_completion_percentage(rows[i].C_ATT)]
        placed == [i \in 1..Len(rows) |-> CompletionRange(pcts[i].v)]
        points == [i \in 1..Len(rows) |-> rows[i].total_points]
        completion_ranges ==
            [c \in {"0-50", "51-60", "61-70", "71-100"} |-> Filed(points, placed, c)]
        avg == PointsAverages(completion_ranges)
    IN  IF RaisedBy(pcts) # "none"
        THEN [pass |-> "final_score", done |-> FALSE, err |-> RaisedBy(pcts)]
        ELSE IF avg.err # "none"
        THEN [pass |-> "final_score", done |-> FALSE, err |-> avg.err]
        ELSE [pass |-> "final_score", done |-> TRUE, err |-> "none",
              percentages |-> Percentages(rows, pcts),
              placed |-> placed,
              completion_ranges |-> completion_ranges, averages |-> avg.v]

\* 206Final.py get_completion_for_wind_chill: results[date] keeps the last row
wind_chill_pass(gs, gr) ==
    LET rows == StatsWithResults(gs, gr)
        pcts == [i \in 1..Len(rows) |-> chill_completion_percentage(rows[i].C_ATT)]
        last(d) == CHOOSE i \in 1..Len(rows) :
                       /\ rows[i].date = d
                       /\ \A j \in 1..Len(rows) : rows[j].date = d => j <= i
    IN  IF RaisedBy(pcts) # "none"
        THEN [pass |-> "wind_chill", done |-> FALSE, err |-> RaisedBy(pcts)]
        ELSE [pass |-> "wind_chill", done |-> TRUE, err |-> "none",
              percentages |-> Percentages(rows, pcts),
              results |-> [d \in {rows[i].date : i \in 1..Len(rows)} |->
                              pcts[last(d)].v]]

\* ----------------------------- the passes over a stored completion string
ParseAlphabet == {"0", "1", "2", "5", "-", "x"}

CompletionStrings ==
    UNION {[1..n -> ParseAlphabet] : n \in 0..MaxStrLen} \cup {NoneStr}

ParseStatsArgs(c_att) ==
    [gameID |-> 1, rushingAttempts |-> <<"4", "5">>,
     completionAttempts |->
         IF c_att # NoneStr /\ Len(Split(c_att, "-")) >= 2
         THEN Split(c_att, "-")[2] ELSE NoneStr,
     C_ATT |-> c_att, rushingYards |-> <<"2", "0", "0">>,
     passingYards |-> <<"2", "5", "0">>]

InitParse ==
    /\ script = "final"
    /\ upstream = [games |-> <<>>, teams |-> <<>>]
    /\ GameResults =
           insert_game_results(<<>>,
               [gameID |-> 1, date |-> <<"2024-09-07">>, home_away |-> "Home",
                opponent |-> "Ohio State", total_points |-> 30]).t
    /\ GameStats \in {insert_game_stats(<<>>, ParseStatsArgs(c)).t :
                          c \in CompletionStrings}
    /\ WeatherData = <<[date |-> <<"2024-09-07">>, location |-> "42.2808,83.743",
                        mean_temperature |-> 40, max_wind_speed |-> 14]>>
    /\ Games = <<>>
    /\ games_list = <<>> /\ teams_list = <<>> /\ weather_list = <<>>
    /\ call = [op |-> "insert_game_stats"]
    /\ err = "none"
    /\ out = NoOut
    /\ pc = Idle
    /\ net = Free /\ run = 1 /\ files = NoFiles

final_get_completion_by_wind_speed ==
    LET o == final_completion_pass(GameStats, GameResults, WeatherData) IN
    /\ script = "final" /\ pc = Idle
    /\ out' = o
    /\ err' = o.err
    /\ call' = [op |-> "get_completion_by_wind_speed"]
    /\ files' = Written(files, o)
    /\ pc' = Returned
    /\ UNCHANGED <<net, run, script, upstream, finalStore, apisState>>

final_get_avg_score_per_percentage ==
    LET o == final_score_pass(GameStats, GameResults) IN
    /\ script = "final" /\ pc = Idle
    /\ out' = o
    /\ err' = o.err
    /\ call' = [op |-> "get_avg_score_per_percentage"]
    /\ files' = Written(files, o)
    /\ pc' = Returned
    /\ UNCHANGED <<net, run, script, upstream, finalStore, apisState>>

get_completion_for_wind_chill ==
    LET o == wind_chill_pass(GameStats, GameResults) IN
    /\ script = "final" /\ pc = Idle
    /\ out' = o
    /\ err' = o.err
    /\ call' = [op |-> "get_completion_for_wind_chill"]
    /\ files' = Written(files, o)
    /\ pc' = Returned
    /\ UNCHANGED <<net, run, script, upstream, finalStore, apisState>>

NextParse ==
    \/ final_get_completion_by_wind_speed
    \/ final_get_avg_score_per_percentage
    \/ get_completion_for_wind_chill

SpecParse == InitParse /\ [][NextParse]_vars

\* ------------------------------------------ final.py: the Weather class
\* A coordinate is kept as f"{latitude},{longitude}" writes it.
home_location == "42.2808,83.743"

\* (None, None)
NoLocation == "None,None"

away_locations ==
    [o \in {"Rutgers", "Ohio State", "Michigan State", "Iowa", "Florida",
            "Purdue", "Indiana", "Penn State", "Maryland", "Wisconsin",
            "Notre Dame", "Northwestern", "Illinois", "Minnesota", "Nebraska",
            "Washington", "Utah"} |->
        CASE o = "Rutgers" -> "40.5018,74.4479"
          [] o = "Ohio State" -> "40.0061,83.0283"
          [] o = "Michigan State" -> "42.7251,84.4791"
          [] o = "Iowa" -> "42.7251,84.4791"
          [] o = "Florida" -> "29.6465,82.3533"
          [] o = "Purdue" -> "40.4237,86.9212"
          [] o = "Indiana" -> "39.1682,86.523"
          [] o = "Penn State" -> "40.7982,77.8599"
          [] o = "Maryland" -> "38.9869,76.9426"
          [] o = "Wisconsin" -> "43.0753,89.4081"
          [] o = "Notre Dame" -> "41.7052,86.2352"
          [] o = "Northwestern" -> "42.0565,87.6753"
          [] o = "Illinois" -> "40.102,88.2272"
          [] o = "Minnesota" -> "44.974,93.2277"
          [] o = "Nebraska" -> "40.8202,96.7005"
          [] o = "Washington" -> "47.6567,122.3066"
          [] o = "Utah" -> "40.7649,111.8421"]

\* home_location for a home game, away_locations.get(opponent, (None, None))
\* for any other
ResolveLocation(home_away, opponent) ==
    IF home_away = "Home" THEN home_location
    ELSE IF opponent \in DOMAIN away_locations THEN away_locations[opponent]
    ELSE NoLocation

\* One day of the Weather Source's "daily" block, its lists read side by side.
Day(date, mean_temperature, max_wind_speed) ==
    [time |-> date, mean_temperature |-> mean_temperature,
     max_wind_speed |-> max_wind_speed]

\* What the archive answers for one day at one place.
Archive(location, date) ==
    <<Day(date, IF location = home_location THEN 40 ELSE 55,
                IF date \in {Opener(y) : y \in 2015..2024} THEN 14 ELSE 25)>>

HasWeather(tbl, date, location) ==
    \E i \in 1..Len(tbl) : tbl[i].date = date /\ tbl[i].location = location

\* the mutant of store_weather_data: a plain INSERT into a table without the
\* UNIQUE(date, location) constraint
RECURSIVE store_weather_data_plain(_, _, _)
store_weather_data_plain(tbl, location, daily) ==
    IF Len(daily) = 0 THEN tbl
    ELSE store_weather_data_plain(
             Append(tbl, [date |-> daily[1].time, location |-> location,
                          mean_temperature |-> daily[1].mean_temperature,
                          max_wind_speed |-> daily[1].max_wind_speed]),
             location, Tail(daily))

\* INSERT OR IGNORE per day into a table with UNIQUE(date, location)
RECURSIVE store_weather_data(_, _, _)
store_weather_data(tbl, location, daily) ==
    IF Len(daily) = 0 THEN tbl
    ELSE store_weather_data(
             IF HasWeather(tbl, daily[1].time, location) THEN tbl
             ELSE Append(tbl, [date |-> daily[1].time, location |-> location,
                               mean_temperature |-> daily[1].mean_temperature,
                               max_wind_speed |-> daily[1].max_wind_speed]),
             location, Tail(daily))

\* What requests.get can do: answer 200 with the archive's data, answer 200
\* with a "daily" block whose lists are empty, answer with another status, or
\* raise.
Replies == {"200", "empty", "500", "ConnectionError"}

\* the days of a 200 answer
Daily(reply, location, date) ==
    IF reply = "empty" THEN <<>> ELSE Archive(location, date)

\* the games of a list that resolve to a coordinate
Resolvable(games) ==
    {games[i].gameID : i \in {k \in 1..Len(games) :
        ResolveLocation(games[k].home_away, games[k].opponent) # NoLocation}}

\* fetch_weather_for_games, game by game; replies[g] is what the Weather
\* Source does if game g asks.  asked lists the requests made and how each
\* was answered.
RECURSIVE fetch_weather_loop(_, _, _, _)
fetch_weather_loop(games, replies, tbl, asked) ==
    IF Len(games) = 0 THEN [t |-> tbl, err |-> "none", asked |-> asked]
    ELSE LET game == games[1]
             location == ResolveLocation(game.home_away, game.opponent)
             request == [gameID |-> game.gameID, date |-> game.date,
                         location |-> location, reply |-> replies[game.gameID]]
         IN  IF location = NoLocation \/ HasWeather(tbl, game.date, location)
             THEN fetch_weather_loop(Tail(games), replies, tbl, asked)
             ELSE IF request.reply = "ConnectionError"
             THEN [t |-> tbl, err |-> "ConnectionError",
                   asked |-> Append(asked, request)]
             ELSE IF request.reply \in {"200", "empty"}
             THEN fetch_weather_loop(Tail(games), replies,
                      store_weather_data(tbl, location,
                          Daily(request.reply, location, game.date)),
                      Append(asked, request))
             ELSE fetch_weather_loop(Tail(games), replies, tbl,
                                     Append(asked, request))

fetch_weather_for_games(gr, replies, tbl) ==
    fetch_weather_loop(gr, replies, tbl, <<>>)

\* GameResults AS gr JOIN GameStats AS gs ON gr.gameID = gs.gameID
\* JOIN WeatherData AS wd ON gr.date = wd.date
ResultsWithStatsAndWeather(gr, gs, wd) ==
    Flatten([i \in 1..Len(gr) |->
        Flatten([k \in 1..Len(gs) |->
            IF gs[k].gameID # gr[i].gameID THEN <<>>
            ELSE LET m == SelectSeq(wd, LAMBDA r : r.date = gr[i].date)
                 IN  [j \in 1..Len(m) |->
                         [gameID |-> gr[i].gameID, date |-> gr[i].date,
                          rushingAttempts |-> gs[k].rushingAttempts,
                          completionAttempts |-> gs[k].completionAttempts,
                          max_wind_speed |-> m[j].max_wind_speed]]])])

\* final.py get_average_percentage_by_wind_speed; rows is what the query gave
final_wind_speed_pass(gr, gs, wd) ==
    LET rows == ResultsWithStatsAndWeather(gr, gs, wd)
        w == wind_results(rows, NoResults)
        avg == [c \in DOMAIN NoResults |->
                   [averagePass |-> Average(w.r[c].passTotal, w.r[c].count),
                    averageRush |-> Average(w.r[c].rushTotal, w.r[c].count),
                    count |-> w.r[c].count]]
    IN  IF w.err # "none"
        THEN [pass |-> "final_wind_speed", done |-> FALSE, err |-> w.err,
              rows |-> rows]
        ELSE [pass |-> "final_wind_speed", done |-> TRUE, err |-> "none",
              rows |-> rows, results |-> w.r,
              averages |-> [c \in DOMAIN avg |->
                               [averagePass |-> avg[c].averagePass.v,
                                averageRush |-> avg[c].averageRush.v,
                                count |-> avg[c].count]]]

\* GameResults AS gr JOIN WeatherData AS wd ON gr.date = wd.date
ResultsWithWeather(gr, wd) ==
    Flatten([i \in 1..Len(gr) |->
        LET m == SelectSeq(wd, LAMBDA r : r.date = gr[i].date)
        IN  [j \in 1..Len(m) |->
                [date |-> gr[i].date, gameID |-> gr[i].gameID,
                 total_points |-> gr[i].total_points,
                 mean_temperature |-> m[j].mean_temperature]]])

\* final.py get_total_points_by_temperature: games lists the rows filed under
\* each category
final_temperature_pass(gr, wd) ==
    LET rows == ResultsWithWeather(gr, wd)
        names == [i \in 1..Len(rows) |-> TemperatureCategory(rows[i].mean_temperature)]
        categories ==
            [c \in {"Cold", "Moderate", "Warm"} |-> Filed(rows, names, c)]
        avg == PointsAverages([c \in DOMAIN categories |->
                   [i \in 1..Len(categories[c]) |-> categories[c][i].total_points]])
    IN  IF avg.err # "none"
        THEN [pass |-> "final_temperature", done |-> FALSE, err |-> avg.err,
              categories |-> categories]
        ELSE [pass |-> "final_temperature", done |-> TRUE, err |-> "none",
              categories |-> categories, averages |-> avg.v]

\* The fixtures the weather operations are tried on: home and away, an
\* opponent the table has and one it lacks, two games on one day.
Fixtures ==
    {<<<<"2024-09-07">>, "Home", "Ohio State", 30>>,
     <<<<"2024-09-07">>, "Away", "Ohio State", 24>>,
     <<<<"2024-11-30">>, "Away", "Hawaii", 17>>,
     <<<<"2024-11-30">>, "Home", "Ohio State", 30>>}

FixtureResult(g, v) ==
    [gameID |-> g, date |-> v[1], home_away |-> v[2], opponent |-> v[3],
     total_points |-> v[4]]

FixtureStats(g) ==
    [gameID |-> g, rushingAttempts |-> <<"4", "5">>,
     completionAttempts |-> <<"2", "9">>, C_ATT |-> <<"1", "8", "-", "2", "9">>,
     rushingYards |-> <<"2", "0", "0">>, passingYards |-> <<"2", "5", "0">>]

\* The coordinates and "daily" blocks store_weather_data is called with
\* directly: no day, one day twice with two readings, two days, and another
\* place on the first day.
WeatherArgs ==
    {<<home_location, <<>>>>,
     <<home_location, <<Day(<<"2024-09-07">>, 20, 5), Day(<<"2024-09-07">>, 40, 14)>>>>,
     <<home_location, <<Day(<<"2024-09-07">>, 40, 14), Day(<<"2024-11-30">>, 40, 25)>>>>,
     <<away_locations["Ohio State"], <<Day(<<"2024-09-07">>, 55, 14)>>>>}

InitWeather ==
    /\ script = "final"
    /\ upstream = [games |-> <<>>, teams |-> <<>>]
    /\ \E n \in 0..MaxGameID : \E f \in [1..n -> Fixtures] :
        /\ GameResults = [i \in 1..n |-> FixtureResult(i, f[i])]
        /\ GameStats = [i \in 1..n |-> StatsRow(FixtureStats(i))]
    /\ WeatherData = <<>>
    /\ Games = <<>>
    /\ games_list = <<>> /\ teams_list = <<>> /\ weather_list = <<>>
    /\ call = [op |-> "insert_game_stats"]
    /\ err = "none"
    /\ out = NoOut
    /\ pc = Idle
    /\ net = Free /\ run = 1 /\ files = NoFiles

Call_store_weather_data ==
    \E a \in WeatherArgs :
        /\ script = "final" /\ pc = Idle
        /\ WeatherData' = store_weather_data(WeatherData, a[1], a[2])
        /\ err' = "none"
        /\ out' = NoOut
        /\ call' = [op |-> "store_weather_data", location |-> a[1],
                    daily |-> a[2]]
        /\ UNCHANGED <<files, net, run, pc, script, upstream, GameResults, GameStats, apisState>>

Call_fetch_weather_for_games ==
    \E replies \in [Resolvable(GameResults) -> Replies] :
        LET r == fetch_weather_for_games(GameResults, replies, WeatherData) IN
        /\ script = "final" /\ pc = Idle
        /\ WeatherData' = r.t
        /\ err' = r.err
        /\ out' = NoOut
        /\ call' = [op |-> "fetch_weather_for_games", asked |-> r.asked]
        /\ UNCHANGED <<files, net, run, pc, script, upstream, GameResults, GameStats, apisState>>

final_get_average_percentage_by_wind_speed ==
    LET o == final_wind_speed_pass(GameResults, GameStats, WeatherData) IN
    /\ script = "final" /\ pc = Idle
    /\ out' = o
    /\ err' = o.err
    /\ call' = [op |-> "get_average_percentage_by_wind_speed"]
    /\ files' = Written(files, o)
    /\ pc' = Returned
    /\ UNCHANGED <<net, run, script, upstream, finalStore, apisState>>

final_get_total_points_by_temperature ==
    LET o == final_temperature_pass(GameResults, WeatherData) IN
    /\ script = "final" /\ pc = Idle
    /\ out' = o
    /\ err' = o.err
    /\ call' = [op |-> "get_total_points_by_temperature"]
    /\ files' = Written(files, o)
    /\ pc' = Returned
    /\ UNCHANGED <<net, run, script, upstream, finalStore, apisState>>

NextWeather ==
    \/ Call_store_weather_data
    \/ Call_fetch_weather_for_games
    \/ final_get_average_percentage_by_wind_speed
    \/ final_get_total_points_by_temperature
    \/ final_get_completion_by_wind_speed

SpecWeather == InitWeather /\ [][NextWeather]_vars

\* ------------------------------------------------- a whole run: main()
\* main() loads the seasons start_year down to 2015; here down to end_year.
MaxYears == 2
start_year == 2024
end_year == start_year - MaxYears + 1

\* a season longer than one insert_game_data call takes
LongSeason == BatchLimit + 1

FullBlock ==
    [school |-> "Michigan",
     stats |-> <<Stat("rushingAttempts", <<"4", "5">>),
                 Stat("completionAttempts", <<"1", "8", "-", "2", "9">>),
                 Stat("rushingYards", <<"2", "0", "0">>),
                 Stat("netPassingYards", <<"2", "5", "0">>)>>]

OtherBlock ==
    [school |-> "Michigan",
     stats |-> <<Stat("netPassingYards", <<"9", "9">>),
                 Stat("completionAttempts", <<"1", "0", "-", "2", "0">>),
                 Stat("rushingAttempts", <<"3", "0">>)>>]

RunGame(id, date, home_team, away_team) ==
    [id |-> id, start_date |-> date \o <<"T", "16:00:00.000Z">>,
     home_team |-> home_team, away_team |-> away_team,
     home_points |-> 30, away_points |-> 24]

\* What the Game Source can hold for a year, every game under its own id:
\* a home game listed twice by /games/teams and an away game at a place the
\* table lacks, with no stats; one away game at a place the table has; a
\* season of LongSeason games.
RunSeasons(year) ==
    LET b == (start_year - year) * LongSeason IN
    {[games |-> <<RunGame(b + 1, Opener(year), "Michigan", "Ohio State"),
                  RunGame(b + 2, Closer(year), "Hawaii", "Michigan")>>,
      teams |-> <<[id |-> b + 1, teams |-> <<OpponentBlock, FullBlock>>],
                  [id |-> b + 1, teams |-> <<OtherBlock, OpponentBlock>>]>>],
     [games |-> <<RunGame(b + 1, Closer(year), "Ohio State", "Michigan")>>,
      teams |-> <<[id |-> b + 1, teams |-> <<FullBlock, OpponentBlock>>]>>],
     [games |-> [j \in 1..LongSeason |->
                    RunGame(b + j, Closer(year), "Hawaii", "Michigan")],
      teams |-> [j \in 1..LongSeason |->
                    [id |-> b + j, teams |-> <<FullBlock>>]]]}

\* range(start_year, end_year - 1, -1): the position after the year's two
\* fetches
AfterYear(year, then) ==
    IF year > end_year THEN [at |-> "games", year |-> year - 1]
    ELSE [at |-> then]

Raised == [at |-> "raised"]

\* apis.py 350-358: the per-day locals of the weather loop, not bound until
\* a game's answer has a day
NoDay == [bound |-> FALSE, mean_temperature |-> None]

\* apis.py 324-373: the weather loop of fetch_michigan_data.  fetch_weather_data
\* returns None for a status other than 200, and data.get then fails.  The
\* append at 361 is outside "for i in range(len(dates))": with no day the
\* per-day locals are those of the game before (loc), and max_wind_speed is
\* still the list read at 348.
RECURSIVE apis_weather_loop(_, _, _, _, _)
apis_weather_loop(games, replies, lst, asked, loc) ==
    IF Len(games) = 0 THEN [t |-> lst, err |-> "none", asked |-> asked]
    ELSE LET game == games[1]
             location == ResolveLocation(game.home_away, game.opponent)
             request == [gameID |-> game.gameID, date |-> game.date,
                         location |-> location, reply |-> replies[game.gameID]]
             daily == Daily(request.reply, location, game.date)
             now == IF Len(daily) = 0 THEN loc
                    ELSE [bound |-> TRUE,
                          mean_temperature |-> daily[Len(daily)].mean_temperature]
         IN  IF location = NoLocation
             THEN apis_weather_loop(Tail(games), replies, lst, asked, loc)
             ELSE IF request.reply = "ConnectionError"
             THEN [t |-> lst, err |-> "ConnectionError",
                   asked |-> Append(asked, request)]
             ELSE IF request.reply \notin {"200", "empty"}
             THEN [t |-> lst, err |-> "AttributeError",
                   asked |-> Append(asked, request)]
             ELSE IF ~now.bound
             THEN [t |-> lst, err |-> "UnboundLocalError",
                   asked |-> Append(asked, request)]
             ELSE apis_weather_loop(Tail(games), replies,
                      Append(lst, [gameID |-> game.gameID,
                                   mean_temperature |-> now.mean_temperature,
                                   max_wind_speed |->
                                       IF Len(daily) = 0 THEN EmptyList
                                       ELSE daily[Len(daily)].max_wind_speed]),
                      Append(asked, request), now)

\* the mutant of FirstWith: the last entry of the list with the gameID
LastWith(lst, id, none) ==
    LET hit == {i \in 1..Len(lst) : lst[i].gameID = id}
    IN  IF hit = {} THEN none
        ELSE lst[CHOOSE i \in hit : \A j \in hit : i >= j]

\* next((e for e in lst if e['gameID'] == game_id), {})
FirstWith(lst, id, none) ==
    LET hit == {i \in 1..Len(lst) : lst[i].gameID = id}
    IN  IF hit = {} THEN none
        ELSE lst[CHOOSE i \in hit : \A j \in hit : i <= j]

\* apis.py 375-381: the merge step
combined_data(michigan_game_results, michigan_team_results, weather) ==
    [i \in 1..Len(michigan_game_results) |->
        Combined(michigan_game_results[i],
                 FirstWith(michigan_team_results,
                           michigan_game_results[i].gameID, NoStats),
                 FirstWith(weather, michigan_game_results[i].gameID, NoWeather))]

\* What a request to the Game Source can meet: success or failure as the
\* source pleases, or as net.fails has it.
GameSourceAnswers(kind, year) ==
    IF net.free THEN BOOLEAN
    ELSE {~\E f \in net.fails : f.kind = kind /\ f.key = year}

\* What the Weather Source does for each of the games that may ask it.
WeatherAnswers(ids) ==
    IF net.free THEN [ids -> Replies]
    ELSE {[g \in ids |->
              IF \E f \in net.fails : f.kind = "weather" /\ f.key = g
              THEN (CHOOSE f \in net.fails : f.kind = "weather" /\ f.key = g).reply
              ELSE "200"]}

InitRun ==
    /\ script \in {"final", "apis"}
    /\ upstream \in [end_year..start_year -> UNION {RunSeasons(y) : y \in end_year..start_year}]
    /\ \A y \in end_year..start_year : upstream[y] \in RunSeasons(y)
    /\ GameResults = <<>> /\ GameStats = <<>> /\ WeatherData = <<>>
    /\ Games = <<>>
    /\ games_list = <<>> /\ teams_list = <<>> /\ weather_list = <<>>
    /\ call = [op |-> "none"]
    /\ err = "none"
    /\ out = NoOut
    /\ pc = [at |-> "games", year |-> start_year]
    /\ net = Free /\ run = 1 /\ files = NoFiles

apis_run_games ==
    /\ script = "apis" /\ pc.at = "games"
    /\ \E ok \in GameSourceAnswers("games", pc.year) :
        /\ games_list' = apis_game_results_loop(games_list,
                             Fetched(ok, upstream[pc.year].games))
        /\ err' = "none"
        /\ call' = [op |-> "get_michigan_game_results", ok |-> ok, year |-> pc.year]
        /\ pc' = [at |-> "teams", year |-> pc.year]
        /\ UNCHANGED <<files, net, run, script, upstream, finalStore, Games, teams_list,
                       weather_list, out>>

apis_run_teams ==
    /\ script = "apis" /\ pc.at = "teams"
    /\ \E ok \in GameSourceAnswers("teams", pc.year) :
        LET r == apis_team_results_loop(teams_list, Unbound,
                                        Fetched(ok, upstream[pc.year].teams)) IN
        /\ teams_list' = r.t
        /\ err' = r.err
        /\ call' = [op |-> "get_michigan_team_results", ok |-> ok, year |-> pc.year]
        /\ pc' = IF r.err # "none" THEN Raised ELSE AfterYear(pc.year, "weather")
        /\ UNCHANGED <<files, net, run, script, upstream, finalStore, Games, games_list,
                       weather_list, out>>

apis_run_weather ==
    \E replies \in WeatherAnswers(Resolvable(games_list)) :
        LET r == apis_weather_loop(games_list, replies, weather_list, <<>>, NoDay) IN
        /\ script = "apis" /\ pc.at = "weather"
        /\ weather_list' = r.t
        /\ err' = r.err
        /\ call' = [op |-> "fetch_weather_data", asked |-> r.asked]
        /\ pc' = IF r.err # "none" THEN Raised ELSE [at |-> "sleep"]
        /\ UNCHANGED <<files, net, run, script, upstream, finalStore, Games, games_list,
                       teams_list, out>>

apis_run_insert ==
    LET b == combined_data(games_list, teams_list, weather_list)
        r == insert_game_data(Games, b) IN
    /\ script = "apis" /\ pc.at = "insert"
    /\ Games' = r.t
    /\ err' = r.err
    /\ call' = [op |-> "insert_game_data", arg |-> b,
                had |-> \E i \in 1..Len(b) : HasKey(Games, b[i].gameID)]
    /\ pc' = IF r.err # "none" THEN Raised ELSE [at |-> "done"]
    /\ UNCHANGED <<files, net, run, script, upstream, finalStore, games_list, teams_list,
                   weather_list, out>>

final_run_games ==
    /\ script = "final" /\ pc.at = "games"
    /\ \E ok \in GameSourceAnswers("games", pc.year) :
        LET r == final_game_results_loop(GameResults,
                                         Fetched(ok, upstream[pc.year].games)) IN
        /\ GameResults' = r.t
        /\ err' = r.err
        /\ call' = [op |-> "get_michigan_game_results", ok |-> ok, year |-> pc.year]
        /\ pc' = IF r.err # "none" THEN Raised
                 ELSE [at |-> "teams", year |-> pc.year]
        /\ UNCHANGED <<files, net, run, script, upstream, GameStats, WeatherData, apisState, out>>

final_run_teams ==
    /\ script = "final" /\ pc.at = "teams"
    /\ \E ok \in GameSourceAnswers("teams", pc.year) :
        LET r == final_team_results_loop(GameStats,
                                         Fetched(ok, upstream[pc.year].teams)) IN
        /\ GameStats' = r.t
        /\ err' = r.err
        /\ call' = [op |-> "get_michigan_team_results", ok |-> ok, year |-> pc.year]
        /\ pc' = IF r.err # "none" THEN Raised
                 ELSE [at |-> "sleep", year |-> pc.year]
        /\ UNCHANGED <<files, net, run, script, upstream, GameResults, WeatherData, apisState, out>>

final_run_weather ==
    \E replies \in WeatherAnswers(Resolvable(GameResults)) :
        LET r == fetch_weather_for_games(GameResults, replies, WeatherData) IN
        /\ script = "final" /\ pc.at = "weather"
        /\ WeatherData' = r.t
        /\ err' = r.err
        /\ call' = [op |-> "fetch_weather_for_games", asked |-> r.asked]
        /\ pc' = IF r.err # "none" THEN Raised ELSE [at |-> "wind_speed"]
        /\ UNCHANGED <<files, net, run, script, upstream, GameResults, GameStats, apisState, out>>

\* main() 819-822: the four report passes, one after the other
final_run_pass ==
    LET o == CASE pc.at = "wind_speed" ->
                      final_wind_speed_pass(GameResults, GameStats, WeatherData)
               [] pc.at = "temperature" ->
                      final_temperature_pass(GameResults, WeatherData)
               [] pc.at = "completion" ->
                      final_completion_pass(GameStats, GameResults, WeatherData)
               [] pc.at = "score" -> final_score_pass(GameStats, GameResults)
    IN
    /\ script = "final"
    /\ pc.at \in {"wind_speed", "temperature", "completion", "score"}
    /\ out' = o
    /\ err' = o.err
    /\ call' = [op |-> pc.at]
    /\ pc' = IF o.err # "none" THEN Raised
             ELSE [at |-> CASE pc.at = "wind_speed" -> "temperature"
                            [] pc.at = "temperature" -> "completion"
                            [] pc.at = "completion" -> "score"
                            [] pc.at = "score" -> "done"]
    /\ files' = Written(files, o)
    /\ UNCHANGED <<net, run, script, upstream, finalStore, apisState>>

\* apis.py 385: sleep(1) between the merge and the insert
apis_run_sleep ==
    /\ script = "apis" /\ pc.at = "sleep"
    /\ call' = [op |-> "sleep"]
    /\ err' = "none"
    /\ pc' = [at |-> "insert"]
    /\ UNCHANGED <<files, net, run, script, upstream, finalStore, apisState, out>>

\* final.py 172: sleep(1) at the end of every turn of the year loop
final_run_sleep ==
    /\ script = "final" /\ pc.at = "sleep"
    /\ call' = [op |-> "sleep"]
    /\ err' = "none"
    /\ pc' = AfterYear(pc.year, "weather")
    /\ UNCHANGED <<files, net, run, script, upstream, finalStore, apisState, out>>

NextRun ==
    \/ apis_run_games
    \/ apis_run_teams
    \/ apis_run_weather
    \/ apis_run_sleep
    \/ apis_run_insert
    \/ final_run_games
    \/ final_run_teams
    \/ final_run_sleep
    \/ final_run_weather
    \/ final_run_pass

SpecRun == InitRun /\ [][NextRun]_vars

\* ------------------------------------------- the three load entry points
\* 206Final.py main() 349-354: for year in range(2024, 2015, -1); the stop
\* value is the last season itself, where final.py and apis.py pass
\* end_year - 1.  Its fetch functions are final.py's, as module functions.
Final206_AfterYear(year) ==
    IF year - 1 > end_year THEN [at |-> "games", year |-> year - 1]
    ELSE [at |-> "reports"]

Final206_run_games ==
    /\ script = "206Final" /\ pc.at = "games"
    /\ \E ok \in GameSourceAnswers("games", pc.year) :
        LET r == final_game_results_loop(GameResults,
                                         Fetched(ok, upstream[pc.year].games)) IN
        /\ GameResults' = r.t
        /\ err' = r.err
        /\ call' = [op |-> "get_michigan_game_results", ok |-> ok, year |-> pc.year]
        /\ pc' = IF r.err # "none" THEN Raised
                 ELSE [at |-> "teams", year |-> pc.year]
        /\ UNCHANGED <<files, net, run, script, upstream, GameStats, WeatherData, apisState, out>>

Final206_run_teams ==
    /\ script = "206Final" /\ pc.at = "teams"
    /\ \E ok \in GameSourceAnswers("teams", pc.year) :
        LET r == final_team_results_loop(GameStats,
                                         Fetched(ok, upstream[pc.year].teams)) IN
        /\ GameStats' = r.t
        /\ err' = r.err
        /\ call' = [op |-> "get_michigan_team_results", ok |-> ok, year |-> pc.year]
        /\ pc' = IF r.err # "none" THEN Raised
                 ELSE [at |-> "sleep", year |-> pc.year]
        /\ UNCHANGED <<files, net, run, script, upstream, GameResults, WeatherData, apisState, out>>

Final206_run_sleep ==
    /\ script = "206Final" /\ pc.at = "sleep"
    /\ call' = [op |-> "sleep"]
    /\ err' = "none"
    /\ pc' = Final206_AfterYear(pc.year)
    /\ UNCHANGED <<files, net, run, script, upstream, finalStore, apisState, out>>

InitLoad ==
    /\ script \in {"final", "apis", "206Final"}
    /\ upstream \in [end_year..start_year -> UNION {RunSeasons(y) : y \in end_year..start_year}]
    /\ \A y \in end_year..start_year : upstream[y] \in RunSeasons(y)
    /\ GameResults = <<>> /\ GameStats = <<>> /\ WeatherData = <<>>
    /\ Games = <<>>
    /\ games_list = <<>> /\ teams_list = <<>> /\ weather_list = <<>>
    /\ call = [op |-> "none"]
    /\ err = "none"
    /\ out = NoOut
    /\ pc = [at |-> "games", year |-> start_year]
    /\ net = Free /\ run = 1 /\ files = NoFiles

NextLoad ==
    \/ NextRun
    \/ Final206_run_games
    \/ Final206_run_teams
    \/ Final206_run_sleep

SpecLoad == InitLoad /\ [][NextLoad]_vars

\* ------------------------------------------- main() run again and again
MaxRuns == 2

\* the requests of a run that can fail, each with the way it fails
Requests(seasons) ==
    {[kind |-> k, key |-> y, reply |-> "failed"] :
        k \in {"games", "teams"}, y \in end_year..start_year}
    \cup {[kind |-> "weather", key |-> g, reply |-> r] :
              g \in UNION {Resolvable([i \in 1..Len(seasons[y].games) |->
                                          GameResultOf(seasons[y].games[i])]) :
                               y \in end_year..start_year},
              r \in Replies \ {"200"}}

\* The sources answer every run alike: all requests succeed, or one fails.
InitRerun ==
    /\ script \in {"final", "apis"}
    /\ upstream \in [end_year..start_year -> UNION {RunSeasons(y) : y \in end_year..start_year}]
    /\ \A y \in end_year..start_year : upstream[y] \in RunSeasons(y)
    /\ GameResults = <<>> /\ GameStats = <<>> /\ WeatherData = <<>>
    /\ Games = <<>>
    /\ games_list = <<>> /\ teams_list = <<>> /\ weather_list = <<>>
    /\ call = [op |-> "none"]
    /\ err = "none"
    /\ out = NoOut
    /\ pc = [at |-> "games", year |-> start_year]
    /\ \E fails \in {{}} \cup {{q} : q \in Requests(upstream)} :
           net = [free |-> FALSE, fails |-> fails]
    /\ run = 1 /\ files = NoFiles

\* The script is started again: the tables are those the last run left, the
\* object and its lists are new.
main_again ==
    /\ pc.at \in {"done", "raised"}
    /\ run < MaxRuns
    /\ run' = run + 1
    /\ pc' = [at |-> "games", year |-> start_year]
    /\ games_list' = <<>> /\ teams_list' = <<>> /\ weather_list' = <<>>
    /\ call' = [op |-> "main"]
    /\ err' = "none"
    /\ out' = NoOut
    /\ UNCHANGED <<files, net, script, upstream, finalStore, Games>>

NextRerun ==
    \/ NextRun
    \/ main_again

SpecRerun == InitRerun /\ [][NextRerun]_vars

\* ------------------------------------ insert_game_data on long batches
\* how far a batch reaches beyond the limit of one call
MaxOver == 2

\* how many games at the head of the batch order may be left out of a batch
MaxSkip == 2

BatchGame(g) ==
    Combined([gameID |-> g, date |-> Closer(start_year), home_away |-> "Away",
              opponent |-> "Hawaii", total_points |-> 24],
             NoStats, NoWeather)

\* the games lo..hi, in ascending or in descending order of gameID
Batch(lo, hi, up) ==
    [i \in 1..(hi - lo + 1) |-> BatchGame(IF up THEN lo + i - 1 ELSE hi - i + 1)]

InitBatch ==
    /\ script = "apis"
    /\ upstream = [games |-> <<>>, teams |-> <<>>]
    /\ InitEmpty

Call_insert_game_data_batch ==
    \E lo \in 1..(MaxSkip + 1) :
    \E hi \in {lo, lo + 1} \cup ((BatchLimit - 1)..(BatchLimit + MaxOver)) :
    \E up \in BOOLEAN :
        LET b == Batch(lo, hi, up)
            r == insert_game_data(Games, b) IN
        /\ script = "apis"
        /\ Games' = r.t
        /\ err' = r.err
        /\ call' = [op |-> "insert_game_data", arg |-> b,
                    had |-> \E i \in 1..Len(b) : HasKey(Games, b[i].gameID)]
        /\ UNCHANGED <<files, net, run, pc, script, upstream, finalStore, games_list, teams_list,
                       weather_list, out>>

NextBatch == Call_insert_game_data_batch

SpecBatch == InitBatch /\ [][NextBatch]_vars

\* ------------------------------------------- insert_game_data, batches
\* of two and three games, any of them with the same gameID
InitPairs ==
    /\ script = "apis"
    /\ upstream = [games |-> <<>>, teams |-> <<>>]
    /\ InitEmpty

\* the home games among the records a run can hand to insert_game_data
PairArgs == {g \in GameArgs : g.home_away = "Home"}

Call_insert_game_data_pairs ==
    \E b \in {<<g, h>> : g \in PairArgs, h \in PairArgs}
              \cup {<<g, h, k>> : g \in PairArgs, h \in PairArgs, k \in PairArgs} :
        LET r == insert_game_data(Games, b) IN
        /\ script = "apis"
        /\ Games' = r.t
        /\ err' = r.err
        /\ call' = [op |-> "insert_game_data", arg |-> b,
                    had |-> \E i \in 1..Len(b) : HasKey(Games, b[i].gameID)]
        /\ UNCHANGED <<files, net, run, pc, script, upstream, finalStore, games_list, teams_list,
                       weather_list, out>>

NextPairs == Call_insert_game_data_pairs

SpecPairs == InitPairs /\ [][NextPairs]_vars

\* ------------------------------------------- calculations.py: main()
\* the games of the samples with a wind speed or a temperature at a threshold
ReportRecords ==
    {g \in AggRecords : g.max_wind_speed # None \/ g.mean_temperature = 32}

\* a section some earlier program left in data.txt
OldSection == [pass |-> "old", err |-> "none"]

\* main() starts on a store that apis.py filled, in a directory where data.txt
\* is missing or holds something already.
InitReport ==
    /\ script = "apis"
    /\ upstream = [games |-> <<>>, teams |-> <<>>]
    /\ GameResults = <<>> /\ GameStats = <<>> /\ WeatherData = <<>>
    /\ \E n \in 0..MaxGameID :
           \E f \in [1..n -> ReportRecords] :
               Games = insert_game_data(<<>>, AggBatch(n, f)).t
    /\ games_list = <<>> /\ teams_list = <<>> /\ weather_list = <<>>
    /\ call = [op |-> "insert_game_data"]
    /\ err = "none"
    /\ out = NoOut
    /\ pc = [at |-> "wind_speed"]
    /\ net = Free /\ run = 1
    /\ \E before \in {<<>>, <<OldSection>>, <<OldSection, OldSection>>} :
           files = [NoFiles EXCEPT !["data.txt"] = before]

\* main() 531-534: the four report functions, one after the other
calc_main_pass ==
    LET o == CASE pc.at = "wind_speed" -> wind_speed_pass(Games)
               [] pc.at = "temperature" -> temperature_pass(Games)
               [] pc.at = "completion" -> completion_pass(Games)
               [] pc.at = "score" -> score_pass(Games)
    IN
    /\ script = "apis"
    /\ pc.at \in {"wind_speed", "temperature", "completion", "score"}
    /\ out' = o
    /\ err' = o.err
    /\ files' = Written(files, o)
    /\ call' = [op |-> pc.at]
    /\ pc' = IF o.err # "none" THEN Raised
             ELSE [at |-> CASE pc.at = "wind_speed" -> "temperature"
                            [] pc.at = "temperature" -> "completion"
                            [] pc.at = "completion" -> "score"
                            [] pc.at = "score" -> "done"]
    /\ UNCHANGED <<net, run, script, upstream, finalStore, apisState>>

\* calculations.py is started again on the same store and directory
calc_main_again ==
    /\ script = "apis"
    /\ pc.at \in {"done", "raised"}
    /\ run < MaxRuns
    /\ run' = run + 1
    /\ pc' = [at |-> "wind_speed"]
    /\ call' = [op |-> "main"]
    /\ err' = "none"
    /\ out' = NoOut
    /\ UNCHANGED <<files, net, script, upstream, finalStore, apisState>>

NextReport ==
    \/ calc_main_pass
    \/ calc_main_again

SpecReport == InitReport /\ [][NextReport]_vars

\* ================================================================ claims

\* C1: a persistence insert for a gameID that has no row stores exactly one
\* row holding the record's field values; an insert for a gameID that has a
\* row raises nothing and changes nothing; so r1 then r2 leaves r1's row alone.
\* Checked for insert_game_results, insert_game_stats and insert_game_data
\* with a one-element batch.
C1_Idempotent ==
    [][/\ call'.op = "insert_game_results" =>
            LET a == call'.arg
                was == SelectSeq(GameResults, LAMBDA r : r.gameID = a.gameID)
                now == SelectSeq(GameResults', LAMBDA r : r.gameID = a.gameID)
            IN  /\ err' = "none"
                /\ Len(now) = 1
                /\ IF was # <<>> THEN GameResults' = GameResults ELSE now[1] = a
       /\ call'.op = "insert_game_stats" =>
            LET a == call'.arg
                was == SelectSeq(GameStats, LAMBDA r : r.gameID = a.gameID)
                now == SelectSeq(GameStats', LAMBDA r : r.gameID = a.gameID)
            IN  /\ err' = "none"
                /\ Len(now) = 1
                /\ IF was # <<>> THEN GameStats' = GameStats
                   ELSE now[1].C_ATT = a.C_ATT
       /\ (call'.op = "insert_game_data" /\ Len(call'.arg) = 1) =>
            LET a == call'.arg[1]
                was == SelectSeq(Games, LAMBDA r : r.gameID = a.gameID)
                now == SelectSeq(Games', LAMBDA r : r.gameID = a.gameID)
            IN  /\ err' = "none"
                /\ Len(now) = 1
                /\ IF was # <<>> THEN Games' = Games
                   ELSE /\ now[1].total_points = a.total_points
                        /\ now[1].completed = a.completed
                        /\ now[1].attempted = a.attempted
                        /\ now[1].home_away_id = (IF a.home_away = "Home" THEN 1 ELSE 2)
      ]_vars

\* The second insert of C1 has run with a record that differs from the stored one.
C1_Witness ==
    /\ call.op = "insert_game_results"
    /\ call.had
    /\ err = "none"
    /\ \E i \in 1..Len(GameResults) :
           /\ GameResults[i].gameID = call.arg.gameID
           /\ GameResults[i] # call.arg

\* What C2 says of one raw game and the record made of it.
C2_Matches(rec, game) ==
    /\ rec.gameID = game.id
    /\ game.home_team = "Michigan" =>
           /\ rec.home_away = "Home"
           /\ rec.opponent = game.away_team
           /\ rec.total_points = game.home_points
    /\ game.home_team # "Michigan" =>
           /\ rec.home_away = "Away"
           /\ rec.opponent = game.home_team
           /\ rec.total_points = game.away_points

C2_First(g) ==
    upstream.games[CHOOSE i \in 1..Len(upstream.games) :
                       /\ upstream.games[i].id = g
                       /\ \A j \in 1..(i - 1) : upstream.games[j].id # g]

\* C2: get_michigan_game_results makes of every raw game the record with
\* home_away, opponent and total_points chosen by home_team = 'Michigan', and
\* gameID = id: apis.py appends it to games_list, final.py hands it to
\* insert_game_results (which keeps the first record of a gameID).
C2_HomeAway ==
    /\ script = "apis" =>
          /\ \A i \in 1..Len(games_list) :
                 C2_Matches(games_list[i],
                            upstream.games[((i - 1) % Len(upstream.games)) + 1])
          /\ (call.op = "get_michigan_game_results" /\ call.ok) =>
                 Len(games_list) >= Len(upstream.games)
    /\ script = "final" =>
          /\ \A i \in 1..Len(GameResults) :
                 C2_Matches(GameResults[i], C2_First(GameResults[i].gameID))
          /\ (call.op = "get_michigan_game_results" /\ call.ok) =>
                 \A i \in 1..Len(upstream.games) :
                     \E k \in 1..Len(GameResults) :
                         GameResults[k].gameID = upstream.games[i].id

\* A response with a home game and an away game has been extracted and stored.
C2_Witness ==
    /\ script = "final"
    /\ call.op = "get_michigan_game_results" /\ call.ok
    /\ \E i, j \in 1..Len(GameResults) :
           /\ GameResults[i].home_away = "Home"
           /\ GameResults[i].total_points = 30
           /\ GameResults[j].home_away = "Away"
           /\ GameResults[j].opponent = "Hawaii"

C10_HasMichigan(game) ==
    \E i \in 1..Len(game.teams) : game.teams[i].school = "Michigan"

\* A Michigan block whose four categories are present and whose
\* completionAttempts is "C-A".
C10_Sound(game) ==
    \A i \in 1..Len(game.teams) :
        game.teams[i].school = "Michigan" =>
            /\ \A c \in {"rushingAttempts", "completionAttempts",
                         "rushingYards", "netPassingYards"} :
                   \E k \in 1..Len(game.teams[i].stats) :
                       game.teams[i].stats[k].category = c
            /\ \A k \in 1..Len(game.teams[i].stats) :
                   game.teams[i].stats[k].category = "completionAttempts" =>
                       game.teams[i].stats[k].stat \in
                           {<<"1", "8", "-", "2", "9">>, <<"1", "0", "-", "2", "0">>}

\* C10: after get_michigan_team_results has read a response in which some
\* games have no Michigan block (and every Michigan block is sound), nothing
\* was raised and no stats record carries the gameID of a game without one:
\* no GameStats row (final.py), no teams_list entry (apis.py).
C10_AbsentBlockSkipped ==
    (/\ call.op = "get_michigan_team_results" /\ call.ok
     /\ \A i \in 1..Len(upstream.teams) : C10_Sound(upstream.teams[i]))
    =>
    /\ err = "none"
    /\ \A g \in GameIDs :
           (\A i \in 1..Len(upstream.teams) :
                upstream.teams[i].id = g => ~C10_HasMichigan(upstream.teams[i]))
           => /\ \A k \in 1..Len(GameStats) : GameStats[k].gameID # g
              /\ \A k \in 1..Len(teams_list) : teams_list[k].gameID # g

\* ---------------------------------------------------------------- C3
\* C3: the completion percentage an aggregator computes from a stored
\* completion string is 100*C/A when the string is "C-A" with C and A integers
\* and A > 0, and exactly 0 when A = 0, when the string is null and when it is
\* not two integers around one '-'; the aggregator raises on none of them.
C3_IsNumber(p) ==
    Len(p) > 0 /\ \A i \in 1..Len(p) : p[i] \in {"0", "1", "2", "3", "4", "5",
                                                  "6", "7", "8", "9"}

C3_Hyphens(s) ==
    {k \in 1..Len(s) : /\ s[k] = "-"
                       /\ C3_IsNumber(SubSeq(s, 1, k - 1))
                       /\ C3_IsNumber(SubSeq(s, k + 1, Len(s)))}

C3_IsPercentageOf(pct, s) ==
    IF s # NoneStr /\ C3_Hyphens(s) # {}
    THEN LET k == CHOOSE k \in C3_Hyphens(s) : TRUE
             C == IntOf(SubSeq(s, 1, k - 1))
             A == IntOf(SubSeq(s, k + 1, Len(s)))
         IN  IF A > 0 THEN pct[1] * A = 100 * C * pct[2] ELSE pct = Zero
    ELSE pct = Zero

C3_Parse ==
    out.pass \in {"final_completion", "final_score", "wind_chill"} =>
        /\ err = "none" /\ out.done
        /\ Len(out.percentages) = Len(GameStats)
        /\ \A i \in 1..Len(out.percentages) :
               /\ out.percentages[i].c_att = GameStats[i].C_ATT
               /\ C3_IsPercentageOf(out.percentages[i].completion_percentage,
                                    out.percentages[i].c_att)

C3_Witness ==
    /\ out.pass = "final_score" /\ out.done
    /\ GameStats[1].C_ATT = <<"2", "-", "5">>
    /\ out.percentages[1].completion_percentage = <<40, 1>>

\* ---------------------------------------------------------------- C4
\* C4: in get_avg_score_per_percentage every game with integer completed C and
\* attempted A, A > 0 and 0 <= C <= A, has its total points put in exactly one
\* of "0-50", "51-60", "61-70", "71-100", and a percentage of exactly 50 goes
\* to "0-50".
C4_Known(r) ==
    /\ r.completed # None /\ r.attempted # None
    /\ r.attempted > 0 /\ 0 <= r.completed /\ r.completed <= r.attempted

C4_TotalExclusive ==
    out.pass = "score" =>
        \A i \in 1..Len(Games) :
            C4_Known(Games[i]) =>
                /\ out.placed[i] \in {"0-50", "51-60", "61-70", "71-100"}
                /\ 2 * Games[i].completed = Games[i].attempted
                       => out.placed[i] = "0-50"

\* ---------------------------------------------------------------- C5
\* C5: in get_avg_score_per_percentage a game whose completed or attempted is
\* null is put in none of the four ranges, so it enters no average.
C5_NullExcluded ==
    out.pass = "score" =>
        \A i \in 1..Len(Games) :
            (Games[i].completed = None \/ Games[i].attempted = None)
                => out.placed[i] = "none"

\* ---------------------------------------------------------------- C6
\* C6: get_average_percentage_by_wind_speed counts a game with wind speed w in
\* low iff w < 10, in moderate iff 10 <= w < 20, in high iff w >= 20, and a
\* game with null wind speed nowhere: the three counts sum to the number of
\* rows with a wind speed.
C6_In(c, w) ==
    /\ w # None
    /\ \/ c = "low" /\ w < 10
       \/ c = "moderate" /\ 10 <= w /\ w < 20
       \/ c = "high" /\ w >= 20

C6_WindTiers ==
    (out.pass = "wind_speed" /\ out.done) =>
        /\ \A c \in {"low", "moderate", "high"} :
               out.results[c].count =
                   Cardinality({i \in 1..Len(Games) : C6_In(c, Games[i].max_wind_speed)})
        /\ out.results["low"].count + out.results["moderate"].count
               + out.results["high"].count =
                   Cardinality({i \in 1..Len(Games) : Games[i].max_wind_speed # None})

C6_Witness ==
    /\ out.pass = "wind_speed" /\ out.done
    /\ Len(Games) = 2
    /\ Games[1].max_wind_speed = 20 /\ Games[2].max_wind_speed = None
    /\ out.results["high"].count = 1 /\ out.results["moderate"].count = 0

\* ---------------------------------------------------------------- C7
\* C7: get_completion_by_wind_speed files a game with wind speed w under
\* "Low Wind" iff w < 10, "Moderate Wind" iff 10 <= w <= 20, "High Wind" iff
\* w > 20; it and get_average_percentage_by_wind_speed give every w the same
\* tier except w = 20, moderate here and high there.
C7_In(c, w) ==
    /\ w # None
    /\ \/ c = "Low Wind" /\ w < 10
       \/ c = "Moderate Wind" /\ 10 <= w /\ w <= 20
       \/ c = "High Wind" /\ w > 20

C7_SameTier(tier, category) ==
    <<tier, category>> \in {<<"low", "Low Wind">>, <<"moderate", "Moderate Wind">>,
                            <<"high", "High Wind">>}

C7_WindCategories ==
    (out.pass = "completion" /\ out.done) =>
        /\ \A c \in {"Low Wind", "Moderate Wind", "High Wind"} :
               Len(out.categories[c]) =
                   Cardinality({i \in 1..Len(Games) : C7_In(c, Games[i].max_wind_speed)})
        /\ \A i \in 1..Len(Games) :
               LET w == Games[i].max_wind_speed IN
               w # None =>
                   /\ C7_SameTier(WindTier(w), WindCategory(w)) <=> w # 20
                   /\ w = 20 => /\ WindCategory(w) = "Moderate Wind"
                                /\ WindTier(w) = "high"

C7_Witness ==
    /\ out.pass = "completion" /\ out.done
    /\ Len(Games) = 2
    /\ Games[1].max_wind_speed = 20 /\ Games[2].max_wind_speed = 21
    /\ Len(out.categories["Moderate Wind"]) = 1
    /\ Len(out.categories["High Wind"]) = 1

\* ---------------------------------------------------------------- C8
\* C8: get_total_points_by_temperature files a game with mean temperature t
\* under "Cold" iff t < 32, "Moderate" iff 32 <= t <= 50, "Warm" iff t > 50,
\* and a game with null temperature under no category.
C8_In(c, t) ==
    /\ t # None
    /\ \/ c = "Cold" /\ t < 32
       \/ c = "Moderate" /\ 32 <= t /\ t <= 50
       \/ c = "Warm" /\ t > 50

C8_TemperatureCategories ==
    out.pass = "temperature" =>
        \A c \in {"Cold", "Moderate", "Warm"} :
            Len(out.categories[c]) =
                Cardinality({i \in 1..Len(Games) : C8_In(c, Games[i].mean_temperature)})

C8_Witness ==
    /\ out.pass = "temperature"
    /\ Len(Games) = 2
    /\ Games[1].mean_temperature = 50 /\ Games[2].mean_temperature = None
    /\ Len(out.categories["Moderate"]) = 1
    /\ Len(out.categories["Cold"]) = 0 /\ Len(out.categories["Warm"]) = 0

\* ---------------------------------------------------------------- C9
\* C9: no report pass divides by zero; in a pass that ran to its end the
\* average of a bucket that received no game is 0 and the average of any other
\* bucket is the sum of its entries divided by their number.
C9_IsAverage(avg, total, n) ==
    IF n = 0 THEN avg = Zero
    ELSE avg[1] * total[2] * n = total[1] * avg[2]

C9_Averages ==
    /\ err # "ZeroDivisionError"
    /\ (out.pass = "wind_speed" /\ out.done) =>
           \A c \in DOMAIN out.averages :
               /\ C9_IsAverage(out.averages[c].averagePass,
                               out.results[c].passTotal, out.results[c].count)
               /\ C9_IsAverage(out.averages[c].averageRush,
                               out.results[c].rushTotal, out.results[c].count)
    /\ (out.pass = "temperature" /\ out.done) =>
           \A c \in DOMAIN out.averages :
               C9_IsAverage(out.averages[c], <<SumInts(out.categories[c]), 1>>,
                            Len(out.categories[c]))
    /\ (out.pass = "completion" /\ out.done) =>
           \A c \in DOMAIN out.averages :
               C9_IsAverage(out.averages[c], RSum(out.categories[c]),
                            Len(out.categories[c]))
    /\ (out.pass = "score" /\ out.done) =>
           \A c \in DOMAIN out.averages :
               C9_IsAverage(out.averages[c], <<SumInts(out.completion_ranges[c]), 1>>,
                            Len(out.completion_ranges[c]))

C9_Witness ==
    /\ out.pass = "temperature" /\ out.done
    /\ Len(out.categories["Cold"]) = 0 /\ out.averages["Cold"] = Zero
    /\ out.categories["Moderate"] = <<10, 30>>
    /\ out.averages["Moderate"] = <<20, 1>>

\* ---------------------------------------------------------------- C11
C11_Block(game) ==
    game.teams[CHOOSE i \in 1..Len(game.teams) : game.teams[i].school = "Michigan"]

C11_Has(block, c) ==
    \E k \in 1..Len(block.stats) : block.stats[k].category = c

\* The response C11 is about: every game has a Michigan block, and a
\* completionAttempts stat that is present is "C-A".
C11_Response ==
    \A i \in 1..Len(upstream.teams) :
        /\ C10_HasMichigan(upstream.teams[i])
        /\ \A k \in 1..Len(C11_Block(upstream.teams[i]).stats) :
               LET st == C11_Block(upstream.teams[i]).stats[k] IN
               st.category = "completionAttempts" =>
                   st.stat \in {<<"1", "8", "-", "2", "9">>, <<"1", "0", "-", "2", "0">>}

C11_Records(g) ==
    IF script = "final"
    THEN {GameStats[k] : k \in {j \in 1..Len(GameStats) : GameStats[j].gameID = g}}
    ELSE {teams_list[k] : k \in {j \in 1..Len(teams_list) : teams_list[j].gameID = g}}

C11_IsNull(v) == IF script = "final" THEN v = None ELSE v = NoneStr

\* C11: get_michigan_team_results, reading a response in which a Michigan
\* block lacks a category, raises nothing and keeps for every game a record
\* whose statistic of each missing category is null.
C11_MissingIsNull ==
    (/\ call.op = "get_michigan_team_results" /\ call.ok
     /\ C11_Response)
    =>
    /\ err = "none"
    /\ \A i \in 1..Len(upstream.teams) :
           LET game == upstream.teams[i] IN
           /\ C11_Records(game.id) # {}
           /\ \A r \in C11_Records(game.id) :
                  /\ ~C11_Has(C11_Block(game), "rushingAttempts")
                         => C11_IsNull(r.rushingAttempts)
                  /\ ~C11_Has(C11_Block(game), "completionAttempts")
                         => C11_IsNull(r.completionAttempts)
                  /\ ~C11_Has(C11_Block(game), "rushingYards")
                         => C11_IsNull(r.rushingYards)
                  /\ ~C11_Has(C11_Block(game), "netPassingYards")
                         => C11_IsNull(r.passingYards)

\* ---------------------------------------------------------------- C12
C12_Malformed(stat) ==
    ~\E k \in 1..Len(stat) :
        /\ stat[k] = "-"
        /\ C3_IsNumber(SubSeq(stat, 1, k - 1))
        /\ C3_IsNumber(SubSeq(stat, k + 1, Len(stat)))

\* The response C12 is about: every game has a Michigan block with a
\* completionAttempts stat, well formed or not.
C12_Response ==
    \A i \in 1..Len(upstream.teams) :
        /\ C10_HasMichigan(upstream.teams[i])
        /\ C11_Has(C11_Block(upstream.teams[i]), "completionAttempts")

C12_Stat(game) ==
    LET b == C11_Block(game)
    IN  b.stats[CHOOSE k \in 1..Len(b.stats) :
                    b.stats[k].category = "completionAttempts"].stat

\* C12: get_michigan_team_results, reading a completionAttempts stat that is
\* not two integers around one '-', raises nothing and keeps 0 for the values
\* derived from it.
C12_MalformedIsZero ==
    (/\ call.op = "get_michigan_team_results" /\ call.ok
     /\ C12_Response)
    =>
    /\ err = "none"
    /\ \A i \in 1..Len(upstream.teams) :
           C12_Malformed(C12_Stat(upstream.teams[i])) =>
               /\ C11_Records(upstream.teams[i].id) # {}
               /\ \A r \in C11_Records(upstream.teams[i].id) :
                      IF script = "final" THEN r.completionAttempts = 0
                      ELSE r.completionAttempts = <<"0">>

\* ---------------------------------------------------------------- C16
C16_Unique(tbl) ==
    \A i, j \in 1..Len(tbl) :
        (tbl[i].date = tbl[j].date /\ tbl[i].location = tbl[j].location) => i = j

\* the days of a store_weather_data call whose (date, location) pair the
\* table already held
C16_Present(tbl, location, daily) ==
    {k \in 1..Len(daily) : HasWeather(tbl, daily[k].time, location)}

\* C16: after every store_weather_data and fetch_weather_for_games call
\* WeatherData holds at most one row per (date, location); both only append,
\* so every row already stored stays as it was, and a store_weather_data call
\* whose pairs are all present leaves the table as it was.
C16_OneRowPerPair ==
    [][/\ C16_Unique(WeatherData')
       /\ call'.op \in {"store_weather_data", "fetch_weather_for_games"} =>
              /\ Len(WeatherData') >= Len(WeatherData)
              /\ SubSeq(WeatherData', 1, Len(WeatherData)) = WeatherData
       /\ (/\ call'.op = "store_weather_data"
           /\ C16_Present(WeatherData, call'.location, call'.daily)
                  = 1..Len(call'.daily))
          => WeatherData' = WeatherData]_vars

\* a store_weather_data call found a pair present with another reading, and
\* the stored reading is the one the table kept
C16_Witness ==
    /\ call.op = "store_weather_data"
    /\ \E k \in 1..Len(call.daily) : \E i \in 1..Len(WeatherData) :
           /\ WeatherData[i].date = call.daily[k].time
           /\ WeatherData[i].location = call.location
           /\ WeatherData[i].max_wind_speed # call.daily[k].max_wind_speed

\* ---------------------------------------------------------------- C17
\* how many of the rows are rows of game g
C17_Times(rows, g) == Cardinality({i \in 1..Len(rows) : rows[i].gameID = g})

\* C17: in the weather-based passes over GameResults, GameStats and
\* WeatherData a game is in at most one joined row and is counted in at most
\* one bucket, whatever rows WeatherData holds.
C17_JoinedOnce ==
    /\ out.pass = "final_wind_speed" =>
           /\ \A g \in 1..Len(GameResults) : C17_Times(out.rows, g) <= 1
           /\ out.done =>
                  out.results["low"].count + out.results["moderate"].count
                      + out.results["high"].count <= Len(GameResults)
    /\ out.pass = "final_temperature" =>
           \A g \in 1..Len(GameResults) :
               C17_Times(out.categories["Cold"] \o out.categories["Moderate"]
                             \o out.categories["Warm"], g) <= 1
    /\ (out.pass = "final_completion" /\ out.done) =>
           Len(out.percentages) <= Len(GameResults)

\* ---------------------------------------------------------------- C15
\* the games of GameResults whose venue the table cannot resolve
C15_Unresolved ==
    {g \in 1..Len(GameResults) :
        /\ GameResults[g].home_away # "Home"
        /\ GameResults[g].opponent \notin DOMAIN away_locations}

\* fetch_weather_for_games asks the Weather Source for the home coordinate of
\* a home game and for the table's coordinate of an away game's opponent,
\* never for a game whose opponent the table lacks, and stores rows only for
\* the requests it made.
C15_Resolution ==
    [][call'.op = "fetch_weather_for_games" =>
          /\ \A k \in 1..Len(call'.asked) :
                 LET q == call'.asked[k]
                     game == GameResults[q.gameID]
                 IN  /\ q.gameID \notin C15_Unresolved
                     /\ q.date = game.date
                     /\ game.home_away = "Home" => q.location = home_location
                     /\ game.home_away # "Home" =>
                            q.location = away_locations[game.opponent]
          /\ \A i \in (Len(WeatherData) + 1)..Len(WeatherData') :
                 \E k \in 1..Len(call'.asked) :
                     /\ call'.asked[k].date = WeatherData'[i].date
                     /\ call'.asked[k].location = WeatherData'[i].location]_vars

\* C15: a game played away at an opponent the table lacks is in no joined row
\* and in no bucket of the weather-based passes.
C15_UnresolvedUncounted ==
    \A g \in C15_Unresolved :
        /\ out.pass = "final_wind_speed" => C17_Times(out.rows, g) = 0
        /\ out.pass = "final_temperature" =>
               C17_Times(out.categories["Cold"] \o out.categories["Moderate"]
                             \o out.categories["Warm"], g) = 0

C14_Games == IF script = "final" THEN GameResults ELSE games_list

C14_HasWeather(q) ==
    IF script = "final" THEN HasWeather(WeatherData, q.date, q.location)
    ELSE \E i \in 1..Len(weather_list) : weather_list[i].gameID = q.gameID

\* C14: a Weather Source request that fails, by its status or by a transport
\* error, raises nothing; the game gets no weather, every other game that
\* resolves to a coordinate is still asked for, and the run goes on to its
\* next step.
C14_WeatherFailureGoesOn ==
    call.op \in {"fetch_weather_data", "fetch_weather_for_games"} =>
        /\ err = "none"
        /\ pc.at \in {"sleep", "wind_speed"}
        /\ \A k \in 1..Len(call.asked) :
               call.asked[k].reply # "200" => ~C14_HasWeather(call.asked[k])
        /\ \A i \in 1..Len(C14_Games) :
               LET game == C14_Games[i]
                   q == [gameID |-> game.gameID, date |-> game.date,
                         location |-> ResolveLocation(game.home_away,
                                                      game.opponent)]
               IN  q.location # NoLocation =>
                       \/ \E k \in 1..Len(call.asked) :
                              call.asked[k].gameID = game.gameID
                       \/ script = "final" /\ C14_HasWeather(q)

\* ---------------------------------------------------------------- C18
\* the places of the entries of a list that carry the gameID
C18_Hits(lst, id) == {k \in 1..Len(lst) : lst[k].gameID = id}

C18_StatsOf(rec) ==
    <<rec.rushingAttempts, rec.completionAttempts, rec.completed, rec.attempted,
      rec.rushingYards, rec.passingYards>>

C18_WeatherOf(rec) == <<rec.mean_temperature, rec.max_wind_speed>>

\* C18: the merge step hands insert_game_data one record per game result, in
\* game-result order, with the stats of the first teams_list entry and the
\* weather of the first weather_list entry of the game; without such an entry
\* the fields are absent, the row stored for the game has them null, and
\* nothing is raised.  (The insert that follows raises only on a record whose
\* weather entry is there and holds a list, the entry C29 is about.)
C18_Merge ==
    (script = "apis" /\ call.op = "insert_game_data" /\ pc.at \in {"done", "raised"}) =>
        /\ \/ err = "none"
           \/ \E i \in 1..Len(call.arg) : call.arg[i].max_wind_speed = EmptyList
        /\ Len(call.arg) = Len(games_list)
        /\ \A i \in 1..Len(games_list) :
               LET rec == call.arg[i]
                   s == C18_Hits(teams_list, games_list[i].gameID)
                   w == C18_Hits(weather_list, games_list[i].gameID)
               IN  /\ rec.gameID = games_list[i].gameID
                   /\ rec.date = games_list[i].date
                   /\ rec.home_away = games_list[i].home_away
                   /\ rec.opponent = games_list[i].opponent
                   /\ rec.total_points = games_list[i].total_points
                   /\ s # {} => \E k \in s :
                          /\ \A j \in s : k <= j
                          /\ C18_StatsOf(rec) = C18_StatsOf(teams_list[k])
                   /\ w # {} => \E k \in w :
                          /\ \A j \in w : k <= j
                          /\ C18_WeatherOf(rec) = C18_WeatherOf(weather_list[k])
                   /\ s = {} =>
                          /\ C18_StatsOf(rec) = C18_StatsOf(NoStats)
                          /\ \A k \in C18_Hits(Games, rec.gameID) :
                                 C18_StatsOf(Games[k])
                                     = <<None, None, None, None, None, None>>
                   /\ w = {} =>
                          /\ C18_WeatherOf(rec) = C18_WeatherOf(NoWeather)
                          /\ \A k \in C18_Hits(Games, rec.gameID) :
                                 C18_WeatherOf(Games[k]) = <<None, None>>

\* the merge met a game with two differing teams_list entries, a game with
\* neither stats nor weather, and a game with both, and all were stored
C18_Witness ==
    /\ script = "apis" /\ call.op = "insert_game_data" /\ pc.at = "done"
    /\ \E i \in 1..Len(games_list) :
           \E k, j \in C18_Hits(teams_list, games_list[i].gameID) :
               /\ k < j
               /\ C18_StatsOf(teams_list[k]) # C18_StatsOf(teams_list[j])
               /\ C18_Hits(weather_list, games_list[i].gameID) # {}
    /\ \E i \in 1..Len(games_list) :
           /\ C18_Hits(teams_list, games_list[i].gameID) = {}
           /\ C18_Hits(weather_list, games_list[i].gameID) = {}
           /\ C18_Hits(Games, games_list[i].gameID) # {}

\* ---------------------------------------------------------------- C19
\* the ids of the games the Game Source holds over the whole season range
C19_Returned ==
    UNION {{upstream[y].games[i].id : i \in 1..Len(upstream[y].games)} :
               y \in end_year..start_year}

\* C19: one run on an empty store in which every fetch succeeds leaves exactly
\* one persisted row for every game the Game Source returned, whatever the
\* number of games.  final.py persists a season's games as it fetches them
\* and never removes a row; apis.py persists at the end of the run, and a run
\* that reached it with every game in games_list had every fetch succeed.
C19_EveryGameOnce ==
    /\ [][/\ (script = "final" /\ call'.op = "get_michigan_game_results"
                  /\ call'.ok)
             => \A i \in 1..Len(upstream[call'.year].games) :
                    Cardinality(C18_Hits(GameResults',
                                         upstream[call'.year].games[i].id)) = 1
          /\ \A k \in 1..Len(GameResults) :
                 \E j \in 1..Len(GameResults') : GameResults'[j] = GameResults[k]]_vars
    /\ []((/\ script = "apis" /\ pc.at = "done"
           /\ C19_Returned = {games_list[i].gameID : i \in 1..Len(games_list)})
          => \A g \in C19_Returned : Cardinality(C18_Hits(Games, g)) = 1)

\* ---------------------------------------------------------------- C20
C20_Ids(tbl) == {tbl[i].gameID : i \in 1..Len(tbl)}

\* the places of the batch whose game is not stored and which have fewer than
\* BatchLimit such places before them
C20_FirstNew(tbl, batch) ==
    {i \in 1..Len(batch) :
        /\ ~HasKey(tbl, batch[i].gameID)
        /\ Cardinality({j \in 1..(i - 1) : ~HasKey(tbl, batch[j].gameID)})
               < BatchLimit}

\* C20: a call of insert_game_data with a batch of distinct games adds at most
\* 25 rows to Games: the rows of the first 25 games of the batch, in batch
\* order, that were not yet stored, the stored ones not counting; every row
\* already stored is kept as it was.
C20_FirstTwentyFive ==
    [][call'.op = "insert_game_data" =>
          LET new == C20_Ids(Games') \ C20_Ids(Games)
              first == C20_FirstNew(Games, call'.arg)
          IN  /\ err' = "none"
              /\ Len(Games') = Len(Games) + Cardinality(new)
              /\ Cardinality(new) <= 25
              /\ new = {call'.arg[i].gameID : i \in first}
              /\ \A i \in first :
                     \E k \in 1..Len(Games') : Games'[k] = GamesRow(call'.arg[i])
              /\ \A k \in 1..Len(Games) :
                     \E j \in 1..Len(Games') : Games'[j] = Games[k]]_vars

\* a call with a batch longer than the limit, part of it stored before the
\* call, has left a game of the batch out and more than 25 rows in Games
C20_Witness ==
    /\ call.op = "insert_game_data" /\ call.had
    /\ Len(call.arg) > BatchLimit
    /\ Len(Games) > BatchLimit
    /\ \E i \in 1..Len(call.arg) : ~HasKey(Games, call.arg[i].gameID)

\* ---------------------------------------------------------------- C21
\* C21: when final.py is run again and the two sources answer as they did the
\* first time, no step of the later run adds, changes or removes a row of
\* GameResults, GameStats or WeatherData: the three tables stay exactly as the
\* first run left them.
C21_SecondRunChangesNothing ==
    [][(script = "final" /\ run >= 2) => UNCHANGED finalStore]_vars

\* the second run of final.py has loaded again, every table holding rows, the
\* weather step having asked the Weather Source again
C21_Witness ==
    /\ script = "final" /\ run = 2
    /\ call.op = "fetch_weather_for_games" /\ call.asked # <<>>
    /\ pc.at = "wind_speed"
    /\ GameResults # <<>> /\ GameStats # <<>> /\ WeatherData # <<>>

\* ---------------------------------------------------------------- C22
\* the two Game Source fetches of a season
C22_Fetch == {"get_michigan_game_results", "get_michigan_team_results"}

\* the positions inside the year loop
C22_InLoop(p) == "year" \in DOMAIN p

C22_Step ==
    /\ pc.at = "games" =>
           /\ call'.op = "get_michigan_game_results"
           /\ call'.year = pc.year
           /\ pc' \in {Raised, [at |-> "teams", year |-> pc.year]}
    /\ pc.at = "teams" =>
           /\ call'.op = "get_michigan_team_results"
           /\ call'.year = pc.year
    /\ call'.op \in C22_Fetch => pc.at \in {"games", "teams"}
    /\ (C22_InLoop(pc) /\ pc'.at = "games") => pc'.year = pc.year - 1
    /\ (C22_InLoop(pc) /\ ~C22_InLoop(pc') /\ pc' # Raised) => pc.year = end_year

\* C22: the load starts with season start_year (2024); a season's game
\* results are fetched first and its team stats next, both for that season;
\* the season fetched after a season is the one a year earlier; and the load
\* leaves the year loop only from the last season of the range (2015, here
\* end_year), so that no season of the range is left out or fetched twice.
C22_SeasonsInOrder ==
    /\ (pc.at = "games" /\ pc.year = start_year)
    /\ [][C22_Step]_vars

\* ---------------------------------------------------------------- C23
\* C23: the Game Source fetches of a season are reached from those of the
\* season before only through the pause: every step that brings the run to
\* the games fetch of a next season is the sleep(1) step.
C23_PauseBetweenSeasons ==
    [][pc'.at = "games" => (pc.at = "sleep" /\ call'.op = "sleep")]_vars

\* ---------------------------------------------------------------- C24
\* N, the number of distinct games the Game Source holds
C24_N == Cardinality(C19_Returned)

C24_Min(a, b) == IF a < b THEN a ELSE b

\* C24: when every fetch of every run succeeds, apis.py run again and again
\* on the same upstream data has stored min(25 * k, N) games at the end of
\* its k-th run, one row each and all of them games of the upstream (so a run
\* adds rows as long as a game is missing), and once all N games are stored
\* no step changes Games.
C24_RepeatedRunsPersistAll ==
    /\ []((script = "apis" /\ ~net.free /\ net.fails = {} /\ pc.at = "done") =>
              /\ Len(Games) = C24_Min(BatchLimit * run, C24_N)
              /\ C20_Ids(Games) \subseteq C19_Returned
              /\ Cardinality(C20_Ids(Games)) = Len(Games))
    /\ [][(script = "apis" /\ ~net.free /\ net.fails = {}
              /\ Len(Games) = C24_N) => Games' = Games]_vars

\* the second run has completed what the first could not: more games than
\* one call takes, all of them stored
C24_Witness ==
    /\ script = "apis" /\ ~net.free /\ net.fails = {}
    /\ run = 2 /\ pc.at = "done"
    /\ C24_N > BatchLimit
    /\ Len(Games) = C24_N

\* ---------------------------------------------------------------- C25
\* the batch names a gameID twice that Games does not hold
C25_RepeatsNew(tbl, b) ==
    \E i \in 1..Len(b) : \E j \in (i + 1)..Len(b) :
        b[i].gameID = b[j].gameID /\ ~HasKey(tbl, b[i].gameID)

\* C25: an insert_game_data call whose batch holds the same not yet stored
\* gameID twice raises nothing and leaves exactly one row for every gameID of
\* the batch: one for the repeated game, one for each other new game, and the
\* row already there for a game stored before.
C25_DuplicateInBatch ==
    [][(call'.op = "insert_game_data" /\ C25_RepeatsNew(Games, call'.arg)) =>
          /\ err' = "none"
          /\ \A i \in 1..Len(call'.arg) :
                 Cardinality(C18_Hits(Games', call'.arg[i].gameID)) = 1]_vars

\* ---------------------------------------------------------------- C26
\* 100 * x / (R + P) when R is known and P is known and not 0, else 0
C26_Share(x, R, P) ==
    IF R # None /\ P # None /\ P # 0 THEN Frac(100 * x, R + P) ELSE Zero

\* the games of a wind tier, in table order
C26_Tier(c) == SelectSeq(Games, LAMBDA r : C6_In(c, r.max_wind_speed))

\* C26: get_average_percentage_by_wind_speed never raises, and in every wind
\* tier the pass total is the sum of 100 * P / (R + P) and the rush total the
\* sum of 100 * R / (R + P) over the tier's games with known R and known,
\* non-zero P, every other game of the tier adding 0 and 0 while it is counted;
\* so the two totals of a tier sum to 100 times the number of its games with
\* known R and known non-zero P.
C26_PassRushShares ==
    out.pass = "wind_speed" =>
        /\ out.done /\ err = "none"
        /\ \A c \in {"low", "moderate", "high"} :
               LET t == C26_Tier(c) IN
               /\ out.results[c].count = Len(t)
               /\ out.results[c].passTotal =
                      RSum([i \in 1..Len(t) |->
                               C26_Share(t[i].completionAttempts,
                                         t[i].rushingAttempts, t[i].completionAttempts)])
               /\ out.results[c].rushTotal =
                      RSum([i \in 1..Len(t) |->
                               C26_Share(t[i].rushingAttempts,
                                         t[i].rushingAttempts, t[i].completionAttempts)])
               /\ RAdd(out.results[c].passTotal, out.results[c].rushTotal) =
                      Frac(100 * Len(SelectSeq(t, LAMBDA r :
                               /\ r.rushingAttempts # None
                               /\ r.completionAttempts \notin {None, 0})), 1)

\* the pass has run on a low-wind game with 45 rushes and 0 passes and a
\* low-wind game with 45 rushes and 29 passes: one game adds 0 and 0, and
\* both are counted
C26_Witness ==
    /\ out.pass = "wind_speed" /\ out.done
    /\ Len(Games) = 2
    /\ Games[1].max_wind_speed = 9 /\ Games[2].max_wind_speed = 9
    /\ Games[1].rushingAttempts = 45 /\ Games[1].completionAttempts = 0
    /\ Games[2].rushingAttempts = 45 /\ Games[2].completionAttempts = 29
    /\ out.results["low"].count = 2
    /\ out.results["low"].passTotal = Frac(2900, 74)

\* ---------------------------------------------------------------- C27
\* C27: once the year loop of final.py is over, whatever fetches failed, every
\* GameStats row has a GameResults row with its gameID, and no two GameStats
\* rows have the same gameID.
C27_StatsHaveResults ==
    (script = "final" /\ ~C22_InLoop(pc)) =>
        /\ \A i \in 1..Len(GameStats) : HasKey(GameResults, GameStats[i].gameID)
        /\ \A i \in 1..Len(GameStats) : \A j \in 1..Len(GameStats) :
               GameStats[i].gameID = GameStats[j].gameID => i = j

\* ---------------------------------------------------------------- C28
\* C28: get_total_points_by_temperature and get_avg_score_per_percentage run
\* to their end without raising on every Games table the load can leave, the
\* tables with a game whose total_points is null included.
C28_AveragesNeverRaise ==
    out.pass \in {"temperature", "score"} => (out.done /\ err = "none")

\* ---------------------------------------------------------------- C29
\* C29: when every request of the weather step was answered with status 200
\* and some answer had no day, the step raises nothing, the run goes on to
\* its next step, and a game whose answer had no day has no weather: no
\* weather_list entry in apis.py, no WeatherData row for its day and place in
\* final.py.
C29_NoDayNoWeather ==
    (/\ call.op \in {"fetch_weather_data", "fetch_weather_for_games"}
     /\ \A k \in 1..Len(call.asked) : call.asked[k].reply \in {"200", "empty"}) =>
        /\ err = "none"
        /\ pc.at \in {"sleep", "wind_speed"}
        /\ \A k \in 1..Len(call.asked) :
               call.asked[k].reply = "empty" => ~C14_HasWeather(call.asked[k])

\* ---------------------------------------------------------------- C30
\* C30: when main() of calculations.py has run its four report functions,
\* data.txt holds four sections and no more: the wind-speed averages, the
\* points by temperature, the completion by wind speed and the average score
\* per completion range, in that order, each as its function computes it from
\* the store.  That is so whatever data.txt held before the run and in the
\* first run as in a later one, so a second run on the same store leaves the
\* file the first run left.
C30_FourSectionsOnce ==
    (script = "apis" /\ pc.at = "done") =>
        files["data.txt"] = <<wind_speed_pass(Games), temperature_pass(Games),
                              completion_pass(Games), score_pass(Games)>>

\* the second run over a store of two games has written its last section
C30_Witness ==
    /\ script = "apis" /\ pc.at = "done" /\ run = 2
    /\ call.op = "score"
    /\ Len(Games) = 2
    /\ Len(files["data.txt"]) = 4

====
